---------------------------- MODULE Spec2Model ----------------------------
(***************************************************************************)
(* A model of the request/response normalization and fallback pipeline:    *)
(*   src/utils/rag_client.py       RAGClient                               *)
(*   src/agents/edumentor_agent.py EduMentorAgent                          *)
(*   src/utils/vaani_client.py     VaaniClient                             *)
(*                                                                         *)
(* Python values are tagged records, so that a dictionary can hold values  *)
(* of several types.  A Python str is the sequence of its code points      *)
(* (Str writes one from an ASCII literal); len, + and slicing are Len, \o  *)
(* and SubSeq.  An int is a sign and decimal digits.  A float is the       *)
(* double itself, written as its sign, the digits of its shortest decimal  *)
(* form and a decimal exponent, or one of inf, -inf and nan.  A dict is    *)
(* the sequence of its items in insertion order.                           *)
(* An evaluation that can raise returns Ok(v) or Raise(e).                 *)
(***************************************************************************)
EXTENDS Integers, Sequences, FiniteSets, TLC

VARIABLES
    rag_client,     \* RAGClient: the fields of the global instance (self)
    rag_in,         \* RAGClient: the arguments and the upstream's answer for this run
    rag_call,       \* RAGClient: the last call made on the client and its outcome
    rag_request,    \* RAGClient: the last HTTP request handed to session.post
    rag_transformed \* RAGClient: what the first and the latest call of
                    \* _transform_response returned, for comparing the calls of a run

rag_vars == <<rag_client, rag_in, rag_call, rag_request, rag_transformed>>

VARIABLES
    pc,                 \* EduMentorAgent: where the running call stands
    call,               \* the call being served: the operation and its arguments
    task_id,            \* process_query: the correlation id after line 121
    knowledge_context,  \* process_query: the context text of step 1
    sources,            \* process_query: the sources of step 1
    enhanced_response,  \* process_query: the text of step 2
    groq_used,          \* process_query: the flag of step 2
    groq_in,            \* what the completion service did in this call
    log_in,             \* what the action-log sink did in this call
    events,             \* the upstream requests and log records of this call, in order
    returned            \* what the call returned to its caller

agent_vars ==
    <<pc, call, task_id, knowledge_context, sources, enhanced_response, groq_used,
      groq_in, log_in, events, returned>>

VARIABLES
    vaani,          \* VaaniClient: the fields of the instance (self), session headers included
    vaani_before,   \* VaaniClient: the fields when the running operation started
    vaani_pc,       \* VaaniClient: "idle", or "done" when an operation has returned
    vaani_call,     \* VaaniClient: the operation called and its arguments
    vaani_in,       \* what the content service did on the requests of this operation
    vaani_sent,     \* the requests of this operation, in the order they were sent
    vaani_result,   \* what the operation returned to its caller
    callers         \* concurrent callers of one VaaniClient: where each one stands

vaani_vars ==
    <<vaani, vaani_before, vaani_pc, vaani_call, vaani_in, vaani_sent, vaani_result,
      callers>>


---------------------------------------------------------------------------
(* Python values *)

PyNone == [t |-> "null"]
PyBool(b) == [t |-> "bool", b |-> b]
PyStr(s) == [t |-> "str", s |-> s]
PyList(l) == [t |-> "list", l |-> l]

(* Outcomes of an evaluation *)
Ok(v) == [ok |-> v]
Raise(e) == [exc |-> e]
Raised(r) == "exc" \in DOMAIN r

IsDict(v) == v.t = "obj"
IsStr(v) == v.t = "str"

\* The ASCII characters a string literal of this module can hold: the tab, the
\* newline, the form feed, the carriage return, and the characters 32 to 95 and 97
\* to 126 in the order of their codes
Literals ==
    "\t\n\f\r !\"#$%&'()*+,-./0123456789:;<=>?@ABCDEFGHIJKLMNOPQRSTUVWXYZ[\\]^_"
    \o "abcdefghijklmnopqrstuvwxyz{|}~"

\* The code point of each of them, written out once
CodeAt(i) == IF i <= 4 THEN <<9, 10, 12, 13>>[i] ELSE IF i <= 68 THEN i + 27 ELSE i + 28
CodeOf ==
    [c \in {SubSeq(Literals, i, i) : i \in 1..Len(Literals)} |->
        CodeAt(CHOOSE i \in 1..Len(Literals) : SubSeq(Literals, i, i) = c)]

\* The Python str written as the ASCII literal s: its code points
Str(s) == SubSeq([i \in 1..Len(s) |-> CodeOf[SubSeq(s, i, i)]], 1, Len(s))

\* The code point of the one character of the literal c
Char(c) == CodeOf[c]

\* The str object of an ASCII literal
PyText(s) == PyStr(Str(s))

\* The decimal digits of a natural number, the highest first
RECURSIVE NatDigits(_)
NatDigits(n) == IF n < 10 THEN <<n>> ELSE Append(NatDigits(n \div 10), n % 10)

\* An int of any size: its sign and its decimal digits
PyIntOf(negative, digits) == [t |-> "int", negative |-> negative, digits |-> digits]
PyInt(n) == PyIntOf(n < 0, NatDigits(IF n < 0 THEN -n ELSE n))

\* Digits without the zeros ahead of the first other digit; the last digit stays
NoLeadingZeros(d) ==
    SubSeq(d, CHOOSE n \in 1..(Len(d) + 1) :
                  (n >= Len(d) \/ d[n] # 0) /\ \A j \in 1..(n - 1) : d[j] = 0 /\ j < Len(d),
           Len(d))

\* Digits without the zeros behind the last other digit
NoTrailingZeros(d) ==
    SubSeq(d, 1, CHOOSE n \in 0..Len(d) :
                     (n = 0 \/ d[n] # 0) /\ \A j \in (n + 1)..Len(d) : d[j] = 0)

\* A finite float: its sign, the digits of its shortest decimal form (no zero at
\* either end) and the decimal exponent of the first one: 0.9 is 9 and -1, 12.25 is
\* 1225 and 1.  Zero is the digit 0 with the exponent 0, and has a sign.
PyFloatOf(negative, digits, exponent) ==
    [t |-> "float", negative |-> negative, digits |-> digits, exponent |-> exponent]

\* inf, -inf and nan
PyFloatSpecial(name) == [t |-> "float", special |-> name]
IsSpecialFloat(v) == "special" \in DOMAIN v

PyZero(negative) == PyFloatOf(negative, <<0>>, 0)

\* The float literal m / 10^e, for an m of at most nine digits: 0.9 is 9 / 10^1
PyFloat(m, e) ==
    IF m = 0 THEN PyZero(FALSE)
    ELSE PyFloatOf(m < 0, NoTrailingZeros(NatDigits(IF m < 0 THEN -m ELSE m)),
                   Len(NatDigits(IF m < 0 THEN -m ELSE m)) - 1 - e)

\* A dict: its items <<key, value>> in insertion order, the keys being strs
HasKeyIn(items, key) == \E i \in 1..Len(items) : items[i][1] = key
IndexIn(items, key) == CHOOSE i \in 1..Len(items) : items[i][1] = key

\* d[key] = value on the items of a dict: a key that is there keeps its place
ItemsSet(items, key, value) ==
    IF HasKeyIn(items, key) THEN [items EXCEPT ![IndexIn(items, key)] = <<key, value>>]
    ELSE Append(items, <<key, value>>)

\* The items of a display: a key written twice keeps its first place and its last
\* value
ItemsOf(entries) ==
    LET first(i) == \A j \in 1..(i - 1) : entries[j][1] # entries[i][1]
        last(i) == \A j \in (i + 1)..Len(entries) : entries[j][1] # entries[i][1]
        firsts == SelectSeq([i \in 1..Len(entries) |-> i], first)
    IN  IF \A i \in 1..Len(entries) : first(i) THEN entries
        ELSE SubSeq([k \in 1..Len(firsts) |->
                        <<entries[firsts[k]][1],
                          entries[CHOOSE i \in 1..Len(entries) :
                                      entries[i][1] = entries[firsts[k]][1] /\ last(i)][2]>>],
                    1, Len(firsts))

\* The dict of a display {k1: v1, k2: v2, ...} or of a JSON object
PyDict(entries) == [t |-> "obj", items |-> ItemsOf(entries)]

\* One entry "name": value of a display, for an ASCII name
Entry(name, value) == <<Str(name), value>>

EmptyDict == PyDict(<<>>)

\* key in d, d[key] and d.get(key, default), for a dict d
HasKey(d, key) == HasKeyIn(d.items, key)
Item(d, key) == d.items[IndexIn(d.items, key)][2]
DictGet(d, key, default) == IF HasKey(d, key) THEN Item(d, key) ELSE default

\* d[name] for an ASCII name
Get(d, name) == Item(d, Str(name))

\* The keys of a dict, in insertion order
DictKeys(d) == [i \in 1..Len(d.items) |-> d.items[i][1]]

\* bool(v)
Truthy(v) ==
    CASE v.t = "null" -> FALSE
      [] v.t = "bool" -> v.b
      [] v.t = "str" -> v.s # <<>>
      [] v.t = "int" -> v.digits # <<0>>
      [] v.t = "float" -> IsSpecialFloat(v) \/ v.digits # <<0>>
      [] v.t = "list" -> v.l # <<>>
      [] v.t = "obj" -> v.items # <<>>

\* len(v): TypeError for a value without a length
PyLen(v) ==
    CASE v.t = "str" -> Ok(Len(v.s))
      [] v.t = "list" -> Ok(Len(v.l))
      [] v.t = "obj" -> Ok(Len(v.items))
      [] OTHER -> Raise("TypeError")

\* iter(v), as the sequence the for loop visits.  A str yields its characters, a
\* dict its keys in insertion order.
PyIter(v) ==
    CASE v.t = "list" -> Ok(v.l)
      [] v.t = "str" -> Ok([i \in 1..Len(v.s) |-> PyStr(<<v.s[i]>>)])
      [] v.t = "obj" -> Ok([i \in 1..Len(v.items) |-> PyStr(DictKeys(v)[i])])
      [] v.t \in {"null", "bool", "int", "float"} -> Raise("TypeError")

\* c lies in one of the ranges <<first, last>>
InRanges(c, ranges) == \E i \in 1..Len(ranges) : ranges[i][1] <= c /\ c <= ranges[i][2]

\* The text of decimal digits: "0" is code point 48
DigitText(d) == [i \in 1..Len(d) |-> 48 + d[i]]

\* n times "0"
Zeros(n) == [i \in 1..n |-> Char("0")]

PadLeft(s, n) == Zeros(n - Len(s)) \o s

\* The digit text d read as d / 10^e, written with a decimal point: 0.9, 1.0, 1000.0
FixedNotation(d, e) ==
    IF e <= 0 THEN d \o Zeros(-e) \o Str(".0")
    ELSE IF e < Len(d)
    THEN SubSeq(d, 1, Len(d) - e) \o Str(".") \o SubSeq(d, Len(d) - e + 1, Len(d))
    ELSE Str("0.") \o Zeros(e - Len(d)) \o d

\* The digit text d with the decimal exponent x of the first one: 1e-05, 2.5e-06, 1e+16
ExponentNotation(d, x) ==
    SubSeq(d, 1, 1)
    \o (IF Len(d) > 1 THEN Str(".") \o SubSeq(d, 2, Len(d)) ELSE <<>>)
    \o Str("e") \o (IF x < 0 THEN Str("-") ELSE Str("+"))
    \o PadLeft(DigitText(NatDigits(IF x < 0 THEN -x ELSE x)), 2)

\* float.__repr__ picks the exponent notation below 1e-4 and from 1e16 up
FloatDigits(d, e) ==
    IF Len(d) - 1 - e \in -4..15 THEN FixedNotation(d, e)
    ELSE ExponentNotation(d, Len(d) - 1 - e)

\* repr of a finite float: 0.9, 1.0, -0.5, 12.25, 1e-05, -0.0
FloatToStr(v) ==
    (IF v.negative THEN Str("-") ELSE <<>>)
    \o FloatDigits(DigitText(v.digits), Len(v.digits) - 1 - v.exponent)

\* repr of an int
IntToStr(v) == (IF v.negative THEN Str("-") ELSE <<>>) \o DigitText(v.digits)

\* The characters str.isprintable() rejects (Unicode 14: the categories Cc, Cf, Cs,
\* Co, Cn, Zl, Zp, and Zs but for the space), as ranges of code points
NonPrintableRanges ==
    <<<<0, 31>>, <<127, 160>>, <<173, 173>>, <<888, 889>>, <<896, 899>>, <<907, 907>>,
      <<909, 909>>, <<930, 930>>, <<1328, 1328>>, <<1367, 1368>>, <<1419, 1420>>,
      <<1424, 1424>>, <<1480, 1487>>, <<1515, 1518>>, <<1525, 1541>>, <<1564, 1564>>,
      <<1757, 1757>>, <<1806, 1807>>, <<1867, 1868>>, <<1970, 1983>>, <<2043, 2044>>,
      <<2094, 2095>>, <<2111, 2111>>, <<2140, 2141>>, <<2143, 2143>>, <<2155, 2159>>,
      <<2191, 2199>>, <<2274, 2274>>, <<2436, 2436>>, <<2445, 2446>>, <<2449, 2450>>,
      <<2473, 2473>>, <<2481, 2481>>, <<2483, 2485>>, <<2490, 2491>>, <<2501, 2502>>,
      <<2505, 2506>>, <<2511, 2518>>, <<2520, 2523>>, <<2526, 2526>>, <<2532, 2533>>,
      <<2559, 2560>>, <<2564, 2564>>, <<2571, 2574>>, <<2577, 2578>>, <<2601, 2601>>,
      <<2609, 2609>>, <<2612, 2612>>, <<2615, 2615>>, <<2618, 2619>>, <<2621, 2621>>,
      <<2627, 2630>>, <<2633, 2634>>, <<2638, 2640>>, <<2642, 2648>>, <<2653, 2653>>,
      <<2655, 2661>>, <<2679, 2688>>, <<2692, 2692>>, <<2702, 2702>>, <<2706, 2706>>,
      <<2729, 2729>>, <<2737, 2737>>, <<2740, 2740>>, <<2746, 2747>>, <<2758, 2758>>,
      <<2762, 2762>>, <<2766, 2767>>, <<2769, 2783>>, <<2788, 2789>>, <<2802, 2808>>,
      <<2816, 2816>>, <<2820, 2820>>, <<2829, 2830>>, <<2833, 2834>>, <<2857, 2857>>,
      <<2865, 2865>>, <<2868, 2868>>, <<2874, 2875>>, <<2885, 2886>>, <<2889, 2890>>,
      <<2894, 2900>>, <<2904, 2907>>, <<2910, 2910>>, <<2916, 2917>>, <<2936, 2945>>,
      <<2948, 2948>>, <<2955, 2957>>, <<2961, 2961>>, <<2966, 2968>>, <<2971, 2971>>,
      <<2973, 2973>>, <<2976, 2978>>, <<2981, 2983>>, <<2987, 2989>>, <<3002, 3005>>,
      <<3011, 3013>>, <<3017, 3017>>, <<3022, 3023>>, <<3025, 3030>>, <<3032, 3045>>,
      <<3067, 3071>>, <<3085, 3085>>, <<3089, 3089>>, <<3113, 3113>>, <<3130, 3131>>,
      <<3141, 3141>>, <<3145, 3145>>, <<3150, 3156>>, <<3159, 3159>>, <<3163, 3164>>,
      <<3166, 3167>>, <<3172, 3173>>, <<3184, 3190>>, <<3213, 3213>>, <<3217, 3217>>,
      <<3241, 3241>>, <<3252, 3252>>, <<3258, 3259>>, <<3269, 3269>>, <<3273, 3273>>,
      <<3278, 3284>>, <<3287, 3292>>, <<3295, 3295>>, <<3300, 3301>>, <<3312, 3312>>,
      <<3315, 3327>>, <<3341, 3341>>, <<3345, 3345>>, <<3397, 3397>>, <<3401, 3401>>,
      <<3408, 3411>>, <<3428, 3429>>, <<3456, 3456>>, <<3460, 3460>>, <<3479, 3481>>,
      <<3506, 3506>>, <<3516, 3516>>, <<3518, 3519>>, <<3527, 3529>>, <<3531, 3534>>,
      <<3541, 3541>>, <<3543, 3543>>, <<3552, 3557>>, <<3568, 3569>>, <<3573, 3584>>,
      <<3643, 3646>>, <<3676, 3712>>, <<3715, 3715>>, <<3717, 3717>>, <<3723, 3723>>,
      <<3748, 3748>>, <<3750, 3750>>, <<3774, 3775>>, <<3781, 3781>>, <<3783, 3783>>,
      <<3790, 3791>>, <<3802, 3803>>, <<3808, 3839>>, <<3912, 3912>>, <<3949, 3952>>,
      <<3992, 3992>>, <<4029, 4029>>, <<4045, 4045>>, <<4059, 4095>>, <<4294, 4294>>,
      <<4296, 4300>>, <<4302, 4303>>, <<4681, 4681>>, <<4686, 4687>>, <<4695, 4695>>,
      <<4697, 4697>>, <<4702, 4703>>, <<4745, 4745>>, <<4750, 4751>>, <<4785, 4785>>,
      <<4790, 4791>>, <<4799, 4799>>, <<4801, 4801>>, <<4806, 4807>>, <<4823, 4823>>,
      <<4881, 4881>>, <<4886, 4887>>, <<4955, 4956>>, <<4989, 4991>>, <<5018, 5023>>,
      <<5110, 5111>>, <<5118, 5119>>, <<5760, 5760>>, <<5789, 5791>>, <<5881, 5887>>,
      <<5910, 5918>>, <<5943, 5951>>, <<5972, 5983>>, <<5997, 5997>>, <<6001, 6001>>,
      <<6004, 6015>>, <<6110, 6111>>, <<6122, 6127>>, <<6138, 6143>>, <<6158, 6158>>,
      <<6170, 6175>>, <<6265, 6271>>, <<6315, 6319>>, <<6390, 6399>>, <<6431, 6431>>,
      <<6444, 6447>>, <<6460, 6463>>, <<6465, 6467>>, <<6510, 6511>>, <<6517, 6527>>,
      <<6572, 6575>>, <<6602, 6607>>, <<6619, 6621>>, <<6684, 6685>>, <<6751, 6751>>,
      <<6781, 6782>>, <<6794, 6799>>, <<6810, 6815>>, <<6830, 6831>>, <<6863, 6911>>,
      <<6989, 6991>>, <<7039, 7039>>, <<7156, 7163>>, <<7224, 7226>>, <<7242, 7244>>,
      <<7305, 7311>>, <<7355, 7356>>, <<7368, 7375>>, <<7419, 7423>>, <<7958, 7959>>,
      <<7966, 7967>>, <<8006, 8007>>, <<8014, 8015>>, <<8024, 8024>>, <<8026, 8026>>,
      <<8028, 8028>>, <<8030, 8030>>, <<8062, 8063>>, <<8117, 8117>>, <<8133, 8133>>,
      <<8148, 8149>>, <<8156, 8156>>, <<8176, 8177>>, <<8181, 8181>>, <<8191, 8207>>,
      <<8232, 8239>>, <<8287, 8303>>, <<8306, 8307>>, <<8335, 8335>>, <<8349, 8351>>,
      <<8385, 8399>>, <<8433, 8447>>, <<8588, 8591>>, <<9255, 9279>>, <<9291, 9311>>,
      <<11124, 11125>>, <<11158, 11158>>, <<11508, 11512>>, <<11558, 11558>>,
      <<11560, 11564>>, <<11566, 11567>>, <<11624, 11630>>, <<11633, 11646>>,
      <<11671, 11679>>, <<11687, 11687>>, <<11695, 11695>>, <<11703, 11703>>,
      <<11711, 11711>>, <<11719, 11719>>, <<11727, 11727>>, <<11735, 11735>>,
      <<11743, 11743>>, <<11870, 11903>>, <<11930, 11930>>, <<12020, 12031>>,
      <<12246, 12271>>, <<12284, 12288>>, <<12352, 12352>>, <<12439, 12440>>,
      <<12544, 12548>>, <<12592, 12592>>, <<12687, 12687>>, <<12772, 12783>>,
      <<12831, 12831>>, <<42125, 42127>>, <<42183, 42191>>, <<42540, 42559>>,
      <<42744, 42751>>, <<42955, 42959>>, <<42962, 42962>>, <<42964, 42964>>,
      <<42970, 42993>>, <<43053, 43055>>, <<43066, 43071>>, <<43128, 43135>>,
      <<43206, 43213>>, <<43226, 43231>>, <<43348, 43358>>, <<43389, 43391>>,
      <<43470, 43470>>, <<43482, 43485>>, <<43519, 43519>>, <<43575, 43583>>,
      <<43598, 43599>>, <<43610, 43611>>, <<43715, 43738>>, <<43767, 43776>>,
      <<43783, 43784>>, <<43791, 43792>>, <<43799, 43807>>, <<43815, 43815>>,
      <<43823, 43823>>, <<43884, 43887>>, <<44014, 44015>>, <<44026, 44031>>,
      <<55204, 55215>>, <<55239, 55242>>, <<55292, 63743>>, <<64110, 64111>>,
      <<64218, 64255>>, <<64263, 64274>>, <<64280, 64284>>, <<64311, 64311>>,
      <<64317, 64317>>, <<64319, 64319>>, <<64322, 64322>>, <<64325, 64325>>,
      <<64451, 64466>>, <<64912, 64913>>, <<64968, 64974>>, <<64976, 65007>>,
      <<65050, 65055>>, <<65107, 65107>>, <<65127, 65127>>, <<65132, 65135>>,
      <<65141, 65141>>, <<65277, 65280>>, <<65471, 65473>>, <<65480, 65481>>,
      <<65488, 65489>>, <<65496, 65497>>, <<65501, 65503>>, <<65511, 65511>>,
      <<65519, 65531>>, <<65534, 65535>>, <<65548, 65548>>, <<65575, 65575>>,
      <<65595, 65595>>, <<65598, 65598>>, <<65614, 65615>>, <<65630, 65663>>,
      <<65787, 65791>>, <<65795, 65798>>, <<65844, 65846>>, <<65935, 65935>>,
      <<65949, 65951>>, <<65953, 65999>>, <<66046, 66175>>, <<66205, 66207>>,
      <<66257, 66271>>, <<66300, 66303>>, <<66340, 66348>>, <<66379, 66383>>,
      <<66427, 66431>>, <<66462, 66462>>, <<66500, 66503>>, <<66518, 66559>>,
      <<66718, 66719>>, <<66730, 66735>>, <<66772, 66775>>, <<66812, 66815>>,
      <<66856, 66863>>, <<66916, 66926>>, <<66939, 66939>>, <<66955, 66955>>,
      <<66963, 66963>>, <<66966, 66966>>, <<66978, 66978>>, <<66994, 66994>>,
      <<67002, 67002>>, <<67005, 67071>>, <<67383, 67391>>, <<67414, 67423>>,
      <<67432, 67455>>, <<67462, 67462>>, <<67505, 67505>>, <<67515, 67583>>,
      <<67590, 67591>>, <<67593, 67593>>, <<67638, 67638>>, <<67641, 67643>>,
      <<67645, 67646>>, <<67670, 67670>>, <<67743, 67750>>, <<67760, 67807>>,
      <<67827, 67827>>, <<67830, 67834>>, <<67868, 67870>>, <<67898, 67902>>,
      <<67904, 67967>>, <<68024, 68027>>, <<68048, 68049>>, <<68100, 68100>>,
      <<68103, 68107>>, <<68116, 68116>>, <<68120, 68120>>, <<68150, 68151>>,
      <<68155, 68158>>, <<68169, 68175>>, <<68185, 68191>>, <<68256, 68287>>,
      <<68327, 68330>>, <<68343, 68351>>, <<68406, 68408>>, <<68438, 68439>>,
      <<68467, 68471>>, <<68498, 68504>>, <<68509, 68520>>, <<68528, 68607>>,
      <<68681, 68735>>, <<68787, 68799>>, <<68851, 68857>>, <<68904, 68911>>,
      <<68922, 69215>>, <<69247, 69247>>, <<69290, 69290>>, <<69294, 69295>>,
      <<69298, 69375>>, <<69416, 69423>>, <<69466, 69487>>, <<69514, 69551>>,
      <<69580, 69599>>, <<69623, 69631>>, <<69710, 69713>>, <<69750, 69758>>,
      <<69821, 69821>>, <<69827, 69839>>, <<69865, 69871>>, <<69882, 69887>>,
      <<69941, 69941>>, <<69960, 69967>>, <<70007, 70015>>, <<70112, 70112>>,
      <<70133, 70143>>, <<70162, 70162>>, <<70207, 70271>>, <<70279, 70279>>,
      <<70281, 70281>>, <<70286, 70286>>, <<70302, 70302>>, <<70314, 70319>>,
      <<70379, 70383>>, <<70394, 70399>>, <<70404, 70404>>, <<70413, 70414>>,
      <<70417, 70418>>, <<70441, 70441>>, <<70449, 70449>>, <<70452, 70452>>,
      <<70458, 70458>>, <<70469, 70470>>, <<70473, 70474>>, <<70478, 70479>>,
      <<70481, 70486>>, <<70488, 70492>>, <<70500, 70501>>, <<70509, 70511>>,
      <<70517, 70655>>, <<70748, 70748>>, <<70754, 70783>>, <<70856, 70863>>,
      <<70874, 71039>>, <<71094, 71095>>, <<71134, 71167>>, <<71237, 71247>>,
      <<71258, 71263>>, <<71277, 71295>>, <<71354, 71359>>, <<71370, 71423>>,
      <<71451, 71452>>, <<71468, 71471>>, <<71495, 71679>>, <<71740, 71839>>,
      <<71923, 71934>>, <<71943, 71944>>, <<71946, 71947>>, <<71956, 71956>>,
      <<71959, 71959>>, <<71990, 71990>>, <<71993, 71994>>, <<72007, 72015>>,
      <<72026, 72095>>, <<72104, 72105>>, <<72152, 72153>>, <<72165, 72191>>,
      <<72264, 72271>>, <<72355, 72367>>, <<72441, 72703>>, <<72713, 72713>>,
      <<72759, 72759>>, <<72774, 72783>>, <<72813, 72815>>, <<72848, 72849>>,
      <<72872, 72872>>, <<72887, 72959>>, <<72967, 72967>>, <<72970, 72970>>,
      <<73015, 73017>>, <<73019, 73019>>, <<73022, 73022>>, <<73032, 73039>>,
      <<73050, 73055>>, <<73062, 73062>>, <<73065, 73065>>, <<73103, 73103>>,
      <<73106, 73106>>, <<73113, 73119>>, <<73130, 73439>>, <<73465, 73647>>,
      <<73649, 73663>>, <<73714, 73726>>, <<74650, 74751>>, <<74863, 74863>>,
      <<74869, 74879>>, <<75076, 77711>>, <<77811, 77823>>, <<78895, 82943>>,
      <<83527, 92159>>, <<92729, 92735>>, <<92767, 92767>>, <<92778, 92781>>,
      <<92863, 92863>>, <<92874, 92879>>, <<92910, 92911>>, <<92918, 92927>>,
      <<92998, 93007>>, <<93018, 93018>>, <<93026, 93026>>, <<93048, 93052>>,
      <<93072, 93759>>, <<93851, 93951>>, <<94027, 94030>>, <<94088, 94094>>,
      <<94112, 94175>>, <<94181, 94191>>, <<94194, 94207>>, <<100344, 100351>>,
      <<101590, 101631>>, <<101641, 110575>>, <<110580, 110580>>, <<110588, 110588>>,
      <<110591, 110591>>, <<110883, 110927>>, <<110931, 110947>>, <<110952, 110959>>,
      <<111356, 113663>>, <<113771, 113775>>, <<113789, 113791>>, <<113801, 113807>>,
      <<113818, 113819>>, <<113824, 118527>>, <<118574, 118575>>, <<118599, 118607>>,
      <<118724, 118783>>, <<119030, 119039>>, <<119079, 119080>>, <<119155, 119162>>,
      <<119275, 119295>>, <<119366, 119519>>, <<119540, 119551>>, <<119639, 119647>>,
      <<119673, 119807>>, <<119893, 119893>>, <<119965, 119965>>, <<119968, 119969>>,
      <<119971, 119972>>, <<119975, 119976>>, <<119981, 119981>>, <<119994, 119994>>,
      <<119996, 119996>>, <<120004, 120004>>, <<120070, 120070>>, <<120075, 120076>>,
      <<120085, 120085>>, <<120093, 120093>>, <<120122, 120122>>, <<120127, 120127>>,
      <<120133, 120133>>, <<120135, 120137>>, <<120145, 120145>>, <<120486, 120487>>,
      <<120780, 120781>>, <<121484, 121498>>, <<121504, 121504>>, <<121520, 122623>>,
      <<122655, 122879>>, <<122887, 122887>>, <<122905, 122906>>, <<122914, 122914>>,
      <<122917, 122917>>, <<122923, 123135>>, <<123181, 123183>>, <<123198, 123199>>,
      <<123210, 123213>>, <<123216, 123535>>, <<123567, 123583>>, <<123642, 123646>>,
      <<123648, 124895>>, <<124903, 124903>>, <<124908, 124908>>, <<124911, 124911>>,
      <<124927, 124927>>, <<125125, 125126>>, <<125143, 125183>>, <<125260, 125263>>,
      <<125274, 125277>>, <<125280, 126064>>, <<126133, 126208>>, <<126270, 126463>>,
      <<126468, 126468>>, <<126496, 126496>>, <<126499, 126499>>, <<126501, 126502>>,
      <<126504, 126504>>, <<126515, 126515>>, <<126520, 126520>>, <<126522, 126522>>,
      <<126524, 126529>>, <<126531, 126534>>, <<126536, 126536>>, <<126538, 126538>>,
      <<126540, 126540>>, <<126544, 126544>>, <<126547, 126547>>, <<126549, 126550>>,
      <<126552, 126552>>, <<126554, 126554>>, <<126556, 126556>>, <<126558, 126558>>,
      <<126560, 126560>>, <<126563, 126563>>, <<126565, 126566>>, <<126571, 126571>>,
      <<126579, 126579>>, <<126584, 126584>>, <<126589, 126589>>, <<126591, 126591>>,
      <<126602, 126602>>, <<126620, 126624>>, <<126628, 126628>>, <<126634, 126634>>,
      <<126652, 126703>>, <<126706, 126975>>, <<127020, 127023>>, <<127124, 127135>>,
      <<127151, 127152>>, <<127168, 127168>>, <<127184, 127184>>, <<127222, 127231>>,
      <<127406, 127461>>, <<127491, 127503>>, <<127548, 127551>>, <<127561, 127567>>,
      <<127570, 127583>>, <<127590, 127743>>, <<128728, 128732>>, <<128749, 128751>>,
      <<128765, 128767>>, <<128884, 128895>>, <<128985, 128991>>, <<129004, 129007>>,
      <<129009, 129023>>, <<129036, 129039>>, <<129096, 129103>>, <<129114, 129119>>,
      <<129160, 129167>>, <<129198, 129199>>, <<129202, 129279>>, <<129620, 129631>>,
      <<129646, 129647>>, <<129653, 129655>>, <<129661, 129663>>, <<129671, 129679>>,
      <<129709, 129711>>, <<129723, 129727>>, <<129734, 129743>>, <<129754, 129759>>,
      <<129768, 129775>>, <<129783, 129791>>, <<129939, 129939>>, <<129995, 130031>>,
      <<130042, 131071>>, <<173792, 173823>>, <<177977, 177983>>, <<178206, 178207>>,
      <<183970, 183983>>, <<191457, 194559>>, <<195102, 196607>>, <<201547, 917759>>,
      <<918000, 1114111>>>>

IsPrintable(c) == ~InRanges(c, NonPrintableRanges)

HexDigits == Str("0123456789abcdef")

\* n in hexadecimal, on width digits
RECURSIVE Hex(_, _)
Hex(n, width) ==
    IF width = 0 THEN <<>> ELSE Append(Hex(n \div 16, width - 1), HexDigits[(n % 16) + 1])

\* One character as repr writes it between the quotes: the quote in use and the
\* backslash behind a backslash, \t, \n, \r, and every other character that is not
\* printable as \xhh, \uhhhh or \Uhhhhhhhh
EscapedChar(c, quote) ==
    CASE c = quote \/ c = Char("\\") -> <<Char("\\"), c>>
      [] c = 9 -> Str("\\t")
      [] c = 10 -> Str("\\n")
      [] c = 13 -> Str("\\r")
      [] c \notin {9, 10, 13, quote, Char("\\")} /\ ~IsPrintable(c) ->
            IF c < 256 THEN Str("\\x") \o Hex(c, 2)
            ELSE IF c < 65536 THEN Str("\\u") \o Hex(c, 4)
            ELSE Str("\\U") \o Hex(c, 8)
      [] OTHER -> <<c>>

\* The parts first to last of a sequence of sequences, one behind the other
RECURSIVE Concat(_, _, _)
Concat(parts, first, last) ==
    IF first > last THEN <<>>
    ELSE IF first = last THEN parts[first]
    ELSE Concat(parts, first, (first + last) \div 2)
         \o Concat(parts, ((first + last) \div 2) + 1, last)

Flat(parts) == Concat(parts, 1, Len(parts))

Escaped(s, quote) == Flat([i \in 1..Len(s) |-> EscapedChar(s[i], quote)])

HasChar(s, c) == \E i \in 1..Len(s) : s[i] = c

Quoted(s, quote) == <<quote>> \o Escaped(s, quote) \o <<quote>>

\* repr of a str: single quotes, or double quotes when the text holds a single quote
\* and no double quote
ReprStr(s) ==
    Quoted(s, IF HasChar(s, Char("'")) /\ ~HasChar(s, Char("\"")) THEN Char("\"") ELSE Char("'"))

\* repr(v)
\* The texts with ", " between them
CommaJoined(texts) ==
    Flat([i \in 1..Len(texts) |-> IF i = 1 THEN texts[i] ELSE Str(", ") \o texts[i]])

RECURSIVE Repr(_)
Repr(v) ==
    CASE v.t = "str" -> ReprStr(v.s)
      [] v.t = "null" -> Str("None")
      [] v.t = "bool" -> IF v.b THEN Str("True") ELSE Str("False")
      [] v.t = "int" -> IntToStr(v)
      [] v.t = "float" -> IF IsSpecialFloat(v) THEN Str(v.special) ELSE FloatToStr(v)
      [] v.t = "list" ->
            Str("[") \o CommaJoined([i \in 1..Len(v.l) |-> Repr(v.l[i])]) \o Str("]")
      [] v.t = "obj" ->
            Str("{")
            \o CommaJoined([i \in 1..Len(v.items) |->
                    ReprStr(v.items[i][1]) \o Str(": ") \o Repr(v.items[i][2])])
            \o Str("}")


\* str(v), as an f-string formats a value
Format(v) == IF v.t = "str" THEN v.s ELSE Repr(v)

---------------------------------------------------------------------------
(* Natural numbers of any size, for the rounding of float(): the digits in base *)
(* 10000, the lowest first, with no zero on top (zero is the empty sequence)    *)

Base == 10000

\* The n digits of a without the zeros on top
BigTrim(a, n) ==
    LET digits == SubSeq(a, 1, n)
    IN  SubSeq(digits, 1, CHOOSE k \in 0..n :
                              (k = 0 \/ digits[k] # 0) /\ \A j \in (k + 1)..n : digits[j] = 0)

BigDigit(a, i) == IF i <= Len(a) THEN a[i] ELSE 0

\* The carry into digit i of a sum, from the sums digit by digit: the nearest digit
\* below i that is not Base - 1 decides
CarryInto(sums, i) ==
    /\ i > 1
    /\ IF sums[i - 1] # Base - 1 THEN sums[i - 1] >= Base
       ELSE \E j \in 1..(i - 2) :
               sums[j] >= Base /\ \A k \in (j + 1)..(i - 1) : sums[k] = Base - 1

\* The n sums digit by digit, carried
Carried(sums, n) ==
    BigTrim([i \in 1..n |-> (sums[i] + (IF CarryInto(sums, i) THEN 1 ELSE 0)) % Base], n)

BigPlus(a, b) ==
    LET n == IF Len(a) > Len(b) THEN Len(a) ELSE Len(b)
    IN  Carried(SubSeq([i \in 1..(n + 1) |-> BigDigit(a, i) + BigDigit(b, i)], 1, n + 1),
                n + 1)

\* The borrow from digit i of a difference, from the differences digit by digit
BorrowFrom(differences, i) ==
    /\ i > 1
    /\ IF differences[i - 1] # 0 THEN differences[i - 1] < 0
       ELSE \E j \in 1..(i - 2) :
               differences[j] < 0 /\ \A k \in (j + 1)..(i - 1) : differences[k] = 0

\* a - b, for a >= b
BigMinus(a, b) ==
    LET differences == SubSeq([i \in 1..Len(a) |-> a[i] - BigDigit(b, i)], 1, Len(a))
    IN  BigTrim([i \in 1..Len(a) |->
                    (differences[i] - (IF BorrowFrom(differences, i) THEN 1 ELSE 0) + Base)
                    % Base], Len(a))

\* a * c for a c below Base: the low digits of the products, and the high ones a
\* place up
BigTimes(a, c) ==
    BigPlus(BigTrim([i \in 1..Len(a) |-> (a[i] * c) % Base], Len(a)),
            BigTrim([i \in 1..(Len(a) + 1) |-> IF i = 1 THEN 0 ELSE (a[i - 1] * c) \div Base],
                    Len(a) + 1))

BigLess(a, b) ==
    IF Len(a) # Len(b) THEN Len(a) < Len(b)
    ELSE \E i \in 1..Len(a) : a[i] < b[i] /\ \A j \in (i + 1)..Len(a) : a[j] = b[j]

\* a * 2^k, 13 binary digits at a time
RECURSIVE BigTimesPow2(_, _)
BigTimesPow2(a, k) ==
    IF a = <<>> THEN <<>>
    ELSE IF k <= 13 THEN BigTimes(a, 2^k)
    ELSE BigTimesPow2(BigTimesPow2(a, k \div 2), k - (k \div 2))

\* a * 10^k
BigTimesPow10(a, k) ==
    IF a = <<>> THEN <<>>
    ELSE [i \in 1..(k \div 4) |-> 0] \o BigTimes(a, 10^(k % 4))

\* The number of the decimal digits d (the highest first)
BigOfDigits(d) ==
    BigTrim([i \in 1..((Len(d) + 3) \div 4) |->
                LET at(j) == IF j >= 1 THEN d[j] ELSE 0
                    last == Len(d) - 4 * (i - 1)
                IN  1000 * at(last - 3) + 100 * at(last - 2) + 10 * at(last - 1) + at(last)],
            (Len(d) + 3) \div 4)

\* The number of at most 13 binary digits (the highest first)
RECURSIVE BitsValue(_, _)
BitsValue(bits, n) == IF n = 0 THEN 0 ELSE 2 * BitsValue(bits, n - 1) + bits[n]

\* The number of binary digits, 13 of them at a time
RECURSIVE BigOfBits(_)
BigOfBits(bits) ==
    IF Len(bits) <= 13 THEN BigTrim(<<BitsValue(bits, Len(bits))>>, 1)
    ELSE BigPlus(BigTimes(BigOfBits(SubSeq(bits, 1, Len(bits) - 13)), 8192),
                 BigTrim(<<BitsValue(SubSeq(bits, Len(bits) - 12, Len(bits)), 13)>>, 1))

\* The number of decimal digits of a
BigLength(a) == IF a = <<>> THEN 0 ELSE 4 * (Len(a) - 1) + Len(NatDigits(a[Len(a)]))

---------------------------------------------------------------------------
(* float(): the IEEE 754 double nearest to a decimal, and its shortest form *)

\* The quotient is taken on 16 hexadecimal digits, 64 binary ones
QuotientDigits == 16
QuotientWidth == 4 * QuotientDigits

\* A double has 53 binary digits, and its lowest one counts 2^-1074
MantissaBits == 53
MinExponent == -1074

\* The multiples 0 to n of c
Multiples(c, n) == SubSeq([q \in 1..(n + 1) |-> BigTimes(c, q - 1)], 1, n + 1)

\* One digit of a / c in the base n, for a < n * c, from the multiples of c
DigitOf(a, multiples, n) ==
    CHOOSE q \in 0..(n - 1) : ~BigLess(a, multiples[q + 1]) /\ BigLess(a, multiples[q + 2])

RECURSIVE QuotientFrom(_, _, _, _)
\* The next digit, of 16 times what is left
QuotientNext(next, multiples, n, digits) ==
    LET digit == DigitOf(next, multiples, 16)
    IN  QuotientFrom(BigMinus(next, multiples[digit + 1]), multiples, n - 1,
                     Append(digits, digit))

\* The hexadecimal digits of the quotient a / c taken so far, n of them still to
\* come, for a < c * 16^n and the multiples of c * 16^n; and whether a remainder is
\* left
QuotientFrom(a, multiples, n, digits) ==
    IF n = 0 THEN [digits |-> digits, rest |-> a # <<>>]
    ELSE QuotientNext(BigTimes(a, 16), multiples, n, digits)

\* The binary digits of hexadecimal ones
BitsOf(digits) ==
    [i \in 1..(4 * Len(digits)) |-> (digits[(i + 3) \div 4] \div 2^(3 - ((i - 1) % 4))) % 2]

\* The number of zeros ahead of the first 1
LeadingZeros(bits) ==
    CHOOSE n \in 0..Len(bits) :
        (n = Len(bits) \/ bits[n + 1] = 1) /\ \A j \in 1..n : bits[j] = 0

Magnitude(k) == IF k >= 0 THEN k ELSE -k

\* The binary digits of a quotient taken in hexadecimal ones
QuotientBits(quotient) ==
    [bits |-> SubSeq(BitsOf(quotient.digits), 1, QuotientWidth), rest |-> quotient.rest]

\* The 64 binary digits of the whole part of a / c, for a < c * 2^64, and whether a
\* remainder is left
Quotient(a, c) ==
    QuotientBits(QuotientFrom(a, Multiples(BigTimesPow2(c, QuotientWidth), 16),
                              QuotientDigits, <<>>))

\* n / m divided by 2^s, from the one of n and m that takes the power of two: n for
\* an s below 0, m otherwise
ScaledBy2(n, m, s, shifted) ==
    Quotient(IF s >= 0 THEN n ELSE shifted, IF s >= 0 THEN shifted ELSE m)

\* n / m divided by 2^s
Shifted(n, m, s) ==
    ScaledBy2(n, m, s, BigTimesPow2(IF s >= 0 THEN m ELSE n, Magnitude(s)))

\* n * 10^e divided by 2^s, from the power of ten: on n for an e of 0 or more, the
\* divisor otherwise
ScaledBy10(n, e, s, power) ==
    Shifted(IF e >= 0 THEN power ELSE n, IF e >= 0 THEN <<1>> ELSE power, s)

\* The digits d (none of them a leading or a trailing zero) times 10^e, divided by
\* 2^s: the binary digits of the quotient, and whether a remainder is left
Scaled(d, e, s) ==
    ScaledBy10(BigOfDigits(d), e, s,
               BigTimesPow10(IF e >= 0 THEN BigOfDigits(d) ELSE <<1>>, Magnitude(e)))

\* The double m * 2^q nearest to a number, from its quotient by 2^s, ties going to
\* the even m: the quotient holds at least 55 binary digits, or s is -1075; the
\* digits past the 53rd (past 2^-1074 for a subnormal) are rounded away
RoundedFrom(quotient, s) ==
    LET bits == quotient.bits
        significant == QuotientWidth - LeadingZeros(bits)
        drop == IF significant - MantissaBits > MinExponent - s
                THEN significant - MantissaBits ELSE MinExponent - s
        kept == QuotientWidth - drop
        sticky == quotient.rest \/ \E i \in (kept + 2)..QuotientWidth : bits[i] = 1
        up == bits[kept + 1] = 1 /\ (sticky \/ bits[kept] = 1)
    IN  [m |-> BigPlus(BigOfBits(SubSeq(bits, 1, kept)), IF up THEN <<1>> ELSE <<>>),
         q |-> s + drop]

\* The double nearest to d * 10^e, from the quotient by 2^s
RoundedAt(d, e, s) == RoundedFrom(Scaled(d, e, s), s)

\* A lower bound of the binary logarithm of a number whose first decimal digit has
\* the exponent x
Log2Below(x) == ((x * 3321928) \div 1000000) - 1

Nearest(d, e) ==
    LET s == Log2Below(Len(d) - 1 + e) - MantissaBits - 1
    IN  RoundedAt(d, e, IF s > MinExponent - 1 THEN s ELSE MinExponent - 1)

\* 2^52 and 2^53
TwoTo52 == BigTimesPow2(<<1>>, 52)
TwoTo53 == BigTimesPow2(<<1>>, 53)

\* The double m * 2^q is finite: below 2^1024
IsFinite(m, q) == IF m = TwoTo53 THEN q + 1 <= 971 ELSE q <= 971

\* What float() makes of a decimal: a finite double other than zero, by the digits
\* of its shortest form and the exponent of the first one; zero; or infinity
Finite(digits, exponent) == [class |-> "finite", digits |-> digits, exponent |-> exponent]
Zero == [class |-> "zero"]
Infinite == [class |-> "inf"]

\* r + mp reaches past the upper end of the rounding interval of the double; the end
\* itself belongs to the interval when the mantissa is even
Beyond(sum, s, even) == IF even THEN ~BigLess(sum, s) ELSE BigLess(s, sum)
High(r, s, mp, even) == Beyond(BigPlus(r, mp), s, even)
Low(r, mm, even) == IF even THEN ~BigLess(mm, r) ELSE BigLess(r, mm)

RECURSIVE Generate(_, _, _, _, _, _)
\* The last digit: the one taken, or the next one up when that is the nearer
LastDigit(digit, low, high, twice, s) ==
    IF low /\ ~high THEN digit
    ELSE IF high /\ ~low THEN digit + 1
    ELSE IF BigLess(twice, s) \/ (twice = s /\ digit % 2 = 0) THEN digit
    ELSE digit + 1

\* The digits after one more of them is taken: they end where what is left is
\* within the interval on either side
GenerateOn(rest, digit, low, high, multiples, mp, mm, even, digits) ==
    IF ~low /\ ~high THEN Generate(rest, multiples, mp, mm, even, Append(digits, digit))
    ELSE Append(digits, LastDigit(digit, low, high, BigTimes(rest, 2), multiples[2]))

\* The digits from what is left after a digit is taken
GenerateRest(rest, digit, multiples, mp, mm, even, digits) ==
    GenerateOn(rest, digit, Low(rest, mm, even), High(rest, multiples[2], mp, even),
               multiples, mp, mm, even, digits)

\* The digits from ten times what was left, and the digit it holds
GenerateDigit(r, digit, multiples, mp, mm, even, digits) ==
    GenerateRest(BigMinus(r, multiples[digit + 1]), digit, multiples, mp, mm, even, digits)

\* The digits from ten times what was left
GenerateNext(r, multiples, mp, mm, even, digits) ==
    GenerateDigit(r, DigitOf(r, multiples, 10), multiples, mp, mm, even, digits)

\* The digits of the shortest decimal in the rounding interval of r / s, the nearest
\* to it, the even one at a tie; from the multiples 0 to 10 of s
Generate(r, multiples, mp, mm, even, digits) ==
    GenerateNext(BigTimes(r, 10), multiples, BigTimes(mp, 10), BigTimes(mm, 10), even, digits)

\* The power of ten k just above the interval, counted up from a lower bound, and
\* the digits from there
RECURSIVE ScaledUp(_, _, _, _, _, _)
ScaledUp(r, s, mp, mm, even, k) ==
    IF High(r, s, mp, even) THEN ScaledUp(r, BigTimes(s, 10), mp, mm, even, k + 1)
    ELSE Finite(Generate(r, Multiples(s, 10), mp, mm, even, <<>>), k - 1)

\* A lower bound of the decimal exponent of m * 2^q, less one
Log10Below(m, q) == BigLength(m) - 3 + ((q * 30103) \div 100000)

ShortestFrom(r, s, mp, mm, even, k) ==
    ScaledUp(IF k >= 0 THEN r ELSE BigTimesPow10(r, -k),
             IF k >= 0 THEN BigTimesPow10(s, k) ELSE s,
             IF k >= 0 THEN mp ELSE BigTimesPow10(mp, -k),
             IF k >= 0 THEN mm ELSE BigTimesPow10(mm, -k),
             even, k)

\* The same, for a double whose rounding interval is the narrow one or not
ShortestIn(m, q, narrow) ==
    LET two == IF narrow THEN 4 ELSE 2
        up == IF q >= 0 THEN q ELSE 0
        down == IF q >= 0 THEN 0 ELSE -q
    IN  ShortestFrom(BigTimesPow2(BigTimes(m, two), up),
                     BigTimesPow2(<<two>>, down),
                     BigTimesPow2(IF narrow THEN <<2>> ELSE <<1>>, up),
                     BigTimesPow2(<<1>>, up),
                     m[1] % 2 = 0,
                     Log10Below(m, q))

\* The shortest decimal that float() reads back as m * 2^q: the rounding interval
\* reaches half way to the next double on either side (a quarter of the way below a
\* power of two)
Shortest(m, q) == ShortestIn(m, q, m = TwoTo52 /\ q > MinExponent)

\* What float() makes of the nearest double m * 2^q
RoundedTo(nearest) ==
    IF nearest.m = <<>> THEN Zero
    ELSE IF ~IsFinite(nearest.m, nearest.q) THEN Infinite
    ELSE Shortest(nearest.m, nearest.q)

\* What float() makes of the digits d (no leading or trailing zero) times 10^e:
\* infinity past the largest double, zero below half the smallest one.  A decimal of
\* at most 15 digits well inside the range is itself the shortest form of its double.
Rounded(d, e) ==
    LET x == Len(d) - 1 + e
    IN  IF d = <<0>> THEN Zero
        ELSE IF x > 309 THEN Infinite
        ELSE IF x < -324 THEN Zero
        ELSE IF Len(d) <= 15 /\ x \in -307..307 THEN Finite(d, x)
        ELSE RoundedTo(Nearest(d, e))

\* The float object of what float() made of a decimal, with the sign
FloatOfRounded(negative, rounded) ==
    IF rounded.class = "zero" THEN PyZero(negative)
    ELSE IF rounded.class = "inf" THEN PyFloatSpecial(IF negative THEN "-inf" ELSE "inf")
    ELSE PyFloatOf(negative, rounded.digits, rounded.exponent)

\* The float of the digits d (no leading zero) times 10^e, with the sign
FloatOfDigits(negative, d, e) ==
    LET digits == IF NoTrailingZeros(d) = <<>> THEN <<0>> ELSE NoTrailingZeros(d)
    IN  FloatOfRounded(negative, Rounded(digits, e + Len(d) - Len(NoTrailingZeros(d))))

---------------------------------------------------------------------------
(* float(str) *)

\* The characters str.isspace() accepts beyond ASCII, and the zeros of the decimal
\* digits 0 to 9 of every script (Unicode 14), as code points
SpaceRanges ==
    <<<<133, 133>>, <<160, 160>>, <<5760, 5760>>, <<8192, 8202>>, <<8232, 8233>>,
      <<8239, 8239>>, <<8287, 8287>>, <<12288, 12288>>>>

DecimalZeros ==
    <<48, 1632, 1776, 1984, 2406, 2534, 2662, 2790, 2918, 3046, 3174, 3302, 3430, 3558,
      3664, 3792, 3872, 4160, 4240, 6112, 6160, 6470, 6608, 6784, 6800, 6992, 7088, 7232,
      7248, 42528, 43216, 43264, 43472, 43504, 43600, 44016, 65296, 66720, 68912, 69734,
      69872, 69942, 70096, 70384, 70736, 70864, 71248, 71360, 71472, 71904, 72016, 72784,
      73040, 73120, 92768, 92864, 93008, 120782, 120792, 120802, 120812, 120822, 123200,
      123632, 125264, 130032>>

IsDecimal(c) == \E i \in 1..Len(DecimalZeros) : c - DecimalZeros[i] \in 0..9
DecimalValue(c) ==
    c - DecimalZeros[CHOOSE i \in 1..Len(DecimalZeros) : c - DecimalZeros[i] \in 0..9]

\* float() reads its text with every space beyond ASCII as " " and every decimal
\* digit as its ASCII digit; another character beyond ASCII is no part of a number
AsciiChar(c) ==
    IF c < 128 THEN c
    ELSE IF InRanges(c, SpaceRanges) THEN 32
    ELSE IF IsDecimal(c) THEN 48 + DecimalValue(c)
    ELSE Char("?")
AsciiForm(s) == SubSeq([i \in 1..Len(s) |-> AsciiChar(s[i])], 1, Len(s))

\* The blanks float() strips from both ends: space, \t, \n, \v, \f, \r
IsBlank(c) == c \in {32, 9, 10, 11, 12, 13}

Strip(s) ==
    SubSeq(s,
           CHOOSE n \in 1..(Len(s) + 1) :
               (n > Len(s) \/ ~IsBlank(s[n])) /\ \A j \in 1..(n - 1) : IsBlank(s[j]),
           CHOOSE n \in 0..Len(s) :
               (n = 0 \/ ~IsBlank(s[n])) /\ \A j \in (n + 1)..Len(s) : IsBlank(s[j]))

IsDigit(c) == c \in 48..57

\* Digits with single underscores between them: 10, 1_0
IsDigitPart(s) ==
    /\ s # <<>>
    /\ \A i \in 1..Len(s) : IsDigit(s[i]) \/ s[i] = Char("_")
    /\ IsDigit(s[1])
    /\ IsDigit(s[Len(s)])
    /\ \A i \in 1..(Len(s) - 1) : ~(s[i] = Char("_") /\ s[i + 1] = Char("_"))

\* The digits of a digit part
OnlyDigits(s) ==
    LET digit(c) == IsDigit(c)
        kept == SelectSeq(s, digit)
    IN  SubSeq([i \in 1..Len(kept) |-> kept[i] - 48], 1, Len(kept))

HasSign(s) == s # <<>> /\ s[1] \in {Char("+"), Char("-")}
Unsigned(s) == IF HasSign(s) THEN Tail(s) ELSE s
IsNegative(s) == s # <<>> /\ s[1] = Char("-")

\* The first position of the character c in s, or Len(s) + 1
Find(s, c) ==
    CHOOSE n \in 1..(Len(s) + 1) :
        (n > Len(s) \/ s[n] = c) /\ \A j \in 1..(n - 1) : s[j] # c

\* The text ahead of position i and the text behind it
Before(s, i) == SubSeq(s, 1, i - 1)
Behind(s, i) == SubSeq(s, i + 1, Len(s))

\* A natural number of at most nine digits
RECURSIVE DigitsToNat(_)
DigitsToNat(d) ==
    IF d = <<>> THEN 0 ELSE 10 * DigitsToNat(SubSeq(d, 1, Len(d) - 1)) + d[Len(d)]

\* float() reads an exponent of more than nine digits, leading zeros aside, as this
\* magnitude; the digits behind the point are then taken off it like off any other
ExponentLimit == 1100000000

\* float() takes no more digits than this, neither in the whole number from its
\* first digit other than 0, nor behind the point
MaxDigits == 1000000000

\* The value of an exponent text
ExponentValue(text) ==
    IF Len(NoLeadingZeros(OnlyDigits(Unsigned(text)))) > 9
    THEN (IF IsNegative(text) THEN -ExponentLimit ELSE ExponentLimit)
    ELSE IF IsNegative(text) THEN -DigitsToNat(NoLeadingZeros(OnlyDigits(Unsigned(text))))
    ELSE DigitsToNat(NoLeadingZeros(OnlyDigits(Unsigned(text))))

\* The mantissa "whole.frac" and the exponent text are well formed
IsMantissa(whole, frac) ==
    /\ whole = <<>> \/ IsDigitPart(whole)
    /\ frac = <<>> \/ IsDigitPart(frac)
    /\ whole # <<>> \/ frac # <<>>
IsExponent(text) == IsDigitPart(Unsigned(text))

DecimalOf(negative, whole, frac, exponent) ==
    IF ~IsMantissa(whole, frac) THEN Raise("ValueError")
    ELSE IF \/ Len(NoLeadingZeros(OnlyDigits(whole) \o OnlyDigits(frac))) > MaxDigits
            \/ Len(OnlyDigits(frac)) > MaxDigits
    THEN Raise("ValueError")
    ELSE Ok(FloatOfDigits(negative,
                          NoLeadingZeros(OnlyDigits(whole) \o OnlyDigits(frac)),
                          exponent - Len(OnlyDigits(frac))))

\* The number text split at its decimal point
PointSplit(negative, mantissa, exponent) ==
    DecimalOf(negative, Before(mantissa, Find(mantissa, Char("."))),
              Behind(mantissa, Find(mantissa, Char("."))), exponent)

\* The number text split at its "e" or "E"
ExponentSplit(negative, s, at) ==
    IF at <= Len(s) /\ ~IsExponent(Behind(s, at)) THEN Raise("ValueError")
    ELSE PointSplit(negative, Before(s, at),
                    IF at > Len(s) THEN 0 ELSE ExponentValue(Behind(s, at)))

FirstOf(a, b) == IF a < b THEN a ELSE b

\* The ASCII letters in lowercase
LowerAscii(s) == [i \in 1..Len(s) |-> IF s[i] \in 65..90 THEN s[i] + 32 ELSE s[i]]

\* The text behind the sign: a name of a special float, or a number
UnsignedFloat(negative, s, name) ==
    IF name \in {Str("inf"), Str("infinity")}
    THEN Ok(PyFloatSpecial(IF negative THEN "-inf" ELSE "inf"))
    ELSE IF name = Str("nan") THEN Ok(PyFloatSpecial("nan"))
    ELSE ExponentSplit(negative, s, FirstOf(Find(s, Char("e")), Find(s, Char("E"))))

StrippedFloat(s) == UnsignedFloat(IsNegative(s), Unsigned(s), LowerAscii(Unsigned(s)))

\* float(s) for a str: blanks around the text are dropped; then a sign, and "inf",
\* "infinity" or "nan" in any case, or digits with at most one "." and an exponent,
\* single underscores allowed between digits.  Anything else is a ValueError.
ParseFloat(s) == StrippedFloat(Strip(AsciiForm(s)))

\* An infinite float is out of the range of an int
InRange(f) ==
    IF f \in {PyFloatSpecial("inf"), PyFloatSpecial("-inf")} THEN Raise("OverflowError")
    ELSE Ok(f)

\* float(n) for an int: OverflowError past the largest double
FloatOfInt(v) == InRange(FloatOfDigits(v.negative, v.digits, 0))

\* float(v)
ToFloat(v) ==
    CASE v.t = "float" -> Ok(v)
      [] v.t = "int" -> FloatOfInt(v)
      [] v.t = "bool" -> Ok(PyFloat(IF v.b THEN 1 ELSE 0, 0))
      [] v.t = "str" -> ParseFloat(v.s)
      [] OTHER -> Raise("TypeError")

---------------------------------------------------------------------------
(* str.lower(), Unicode 14 *)

\* The letters beyond ASCII with a lowercase of one character, in runs
\* <<first, last, step, distance of the lowercase>>
LowerRuns ==
    <<<<192, 214, 1, 32>>, <<216, 222, 1, 32>>, <<256, 302, 2, 1>>, <<306, 310, 2, 1>>,
      <<313, 327, 2, 1>>, <<330, 374, 2, 1>>, <<376, 376, 1, -121>>, <<377, 381, 2, 1>>,
      <<385, 385, 1, 210>>, <<386, 388, 2, 1>>, <<390, 390, 1, 206>>, <<391, 391, 1, 1>>,
      <<393, 394, 1, 205>>, <<395, 395, 1, 1>>, <<398, 398, 1, 79>>,
      <<399, 399, 1, 202>>, <<400, 400, 1, 203>>, <<401, 401, 1, 1>>,
      <<403, 403, 1, 205>>, <<404, 404, 1, 207>>, <<406, 406, 1, 211>>,
      <<407, 407, 1, 209>>, <<408, 408, 1, 1>>, <<412, 412, 1, 211>>,
      <<413, 413, 1, 213>>, <<415, 415, 1, 214>>, <<416, 420, 2, 1>>,
      <<422, 422, 1, 218>>, <<423, 423, 1, 1>>, <<425, 425, 1, 218>>, <<428, 428, 1, 1>>,
      <<430, 430, 1, 218>>, <<431, 431, 1, 1>>, <<433, 434, 1, 217>>, <<435, 437, 2, 1>>,
      <<439, 439, 1, 219>>, <<440, 440, 1, 1>>, <<444, 444, 1, 1>>, <<452, 452, 1, 2>>,
      <<453, 453, 1, 1>>, <<455, 455, 1, 2>>, <<456, 456, 1, 1>>, <<458, 458, 1, 2>>,
      <<459, 475, 2, 1>>, <<478, 494, 2, 1>>, <<497, 497, 1, 2>>, <<498, 500, 2, 1>>,
      <<502, 502, 1, -97>>, <<503, 503, 1, -56>>, <<504, 542, 2, 1>>,
      <<544, 544, 1, -130>>, <<546, 562, 2, 1>>, <<570, 570, 1, 10795>>,
      <<571, 571, 1, 1>>, <<573, 573, 1, -163>>, <<574, 574, 1, 10792>>,
      <<577, 577, 1, 1>>, <<579, 579, 1, -195>>, <<580, 580, 1, 69>>,
      <<581, 581, 1, 71>>, <<582, 590, 2, 1>>, <<880, 882, 2, 1>>, <<886, 886, 1, 1>>,
      <<895, 895, 1, 116>>, <<902, 902, 1, 38>>, <<904, 906, 1, 37>>,
      <<908, 908, 1, 64>>, <<910, 911, 1, 63>>, <<913, 929, 1, 32>>, <<931, 939, 1, 32>>,
      <<975, 975, 1, 8>>, <<984, 1006, 2, 1>>, <<1012, 1012, 1, -60>>,
      <<1015, 1015, 1, 1>>, <<1017, 1017, 1, -7>>, <<1018, 1018, 1, 1>>,
      <<1021, 1023, 1, -130>>, <<1024, 1039, 1, 80>>, <<1040, 1071, 1, 32>>,
      <<1120, 1152, 2, 1>>, <<1162, 1214, 2, 1>>, <<1216, 1216, 1, 15>>,
      <<1217, 1229, 2, 1>>, <<1232, 1326, 2, 1>>, <<1329, 1366, 1, 48>>,
      <<4256, 4293, 1, 7264>>, <<4295, 4295, 1, 7264>>, <<4301, 4301, 1, 7264>>,
      <<5024, 5103, 1, 38864>>, <<5104, 5109, 1, 8>>, <<7312, 7354, 1, -3008>>,
      <<7357, 7359, 1, -3008>>, <<7680, 7828, 2, 1>>, <<7838, 7838, 1, -7615>>,
      <<7840, 7934, 2, 1>>, <<7944, 7951, 1, -8>>, <<7960, 7965, 1, -8>>,
      <<7976, 7983, 1, -8>>, <<7992, 7999, 1, -8>>, <<8008, 8013, 1, -8>>,
      <<8025, 8031, 2, -8>>, <<8040, 8047, 1, -8>>, <<8072, 8079, 1, -8>>,
      <<8088, 8095, 1, -8>>, <<8104, 8111, 1, -8>>, <<8120, 8121, 1, -8>>,
      <<8122, 8123, 1, -74>>, <<8124, 8124, 1, -9>>, <<8136, 8139, 1, -86>>,
      <<8140, 8140, 1, -9>>, <<8152, 8153, 1, -8>>, <<8154, 8155, 1, -100>>,
      <<8168, 8169, 1, -8>>, <<8170, 8171, 1, -112>>, <<8172, 8172, 1, -7>>,
      <<8184, 8185, 1, -128>>, <<8186, 8187, 1, -126>>, <<8188, 8188, 1, -9>>,
      <<8486, 8486, 1, -7517>>, <<8490, 8490, 1, -8383>>, <<8491, 8491, 1, -8262>>,
      <<8498, 8498, 1, 28>>, <<8544, 8559, 1, 16>>, <<8579, 8579, 1, 1>>,
      <<9398, 9423, 1, 26>>, <<11264, 11311, 1, 48>>, <<11360, 11360, 1, 1>>,
      <<11362, 11362, 1, -10743>>, <<11363, 11363, 1, -3814>>,
      <<11364, 11364, 1, -10727>>, <<11367, 11371, 2, 1>>, <<11373, 11373, 1, -10780>>,
      <<11374, 11374, 1, -10749>>, <<11375, 11375, 1, -10783>>,
      <<11376, 11376, 1, -10782>>, <<11378, 11378, 1, 1>>, <<11381, 11381, 1, 1>>,
      <<11390, 11391, 1, -10815>>, <<11392, 11490, 2, 1>>, <<11499, 11501, 2, 1>>,
      <<11506, 11506, 1, 1>>, <<42560, 42604, 2, 1>>, <<42624, 42650, 2, 1>>,
      <<42786, 42798, 2, 1>>, <<42802, 42862, 2, 1>>, <<42873, 42875, 2, 1>>,
      <<42877, 42877, 1, -35332>>, <<42878, 42886, 2, 1>>, <<42891, 42891, 1, 1>>,
      <<42893, 42893, 1, -42280>>, <<42896, 42898, 2, 1>>, <<42902, 42920, 2, 1>>,
      <<42922, 42922, 1, -42308>>, <<42923, 42923, 1, -42319>>,
      <<42924, 42924, 1, -42315>>, <<42925, 42925, 1, -42305>>,
      <<42926, 42926, 1, -42308>>, <<42928, 42928, 1, -42258>>,
      <<42929, 42929, 1, -42282>>, <<42930, 42930, 1, -42261>>, <<42931, 42931, 1, 928>>,
      <<42932, 42946, 2, 1>>, <<42948, 42948, 1, -48>>, <<42949, 42949, 1, -42307>>,
      <<42950, 42950, 1, -35384>>, <<42951, 42953, 2, 1>>, <<42960, 42960, 1, 1>>,
      <<42966, 42968, 2, 1>>, <<42997, 42997, 1, 1>>, <<65313, 65338, 1, 32>>,
      <<66560, 66599, 1, 40>>, <<66736, 66771, 1, 40>>, <<66928, 66964, 2, 39>>,
      <<66929, 66937, 2, 39>>, <<66941, 66953, 2, 39>>, <<66957, 66961, 2, 39>>,
      <<66965, 66965, 1, 39>>, <<68736, 68786, 1, 64>>, <<71840, 71871, 1, 32>>,
      <<93760, 93791, 1, 32>>, <<125184, 125217, 1, 34>>>>

InRun(c, run) == run[1] <= c /\ c <= run[2] /\ (c - run[1]) % run[3] = 0

\* The lowercase of one character; U+0130 alone gives two (i and the dot above)
LowerOf(c) ==
    IF c < 128 THEN (IF c \in 65..90 THEN <<c + 32>> ELSE <<c>>)
    ELSE IF c = 304 THEN <<105, 775>>
    ELSE IF \E i \in 1..Len(LowerRuns) : InRun(c, LowerRuns[i])
    THEN <<c + LowerRuns[CHOOSE i \in 1..Len(LowerRuns) : InRun(c, LowerRuns[i])][4]>>
    ELSE <<c>>

\* The characters with the properties Cased and Case_Ignorable, as ranges
CasedRanges ==
    <<<<65, 90>>, <<97, 122>>, <<170, 170>>, <<181, 181>>, <<186, 186>>, <<192, 214>>,
      <<216, 246>>, <<248, 442>>, <<444, 447>>, <<452, 659>>, <<661, 696>>, <<704, 705>>,
      <<736, 740>>, <<837, 837>>, <<880, 883>>, <<886, 887>>, <<890, 893>>, <<895, 895>>,
      <<902, 902>>, <<904, 906>>, <<908, 908>>, <<910, 929>>, <<931, 1013>>,
      <<1015, 1153>>, <<1162, 1327>>, <<1329, 1366>>, <<1376, 1416>>, <<4256, 4293>>,
      <<4295, 4295>>, <<4301, 4301>>, <<4304, 4346>>, <<4349, 4351>>, <<5024, 5109>>,
      <<5112, 5117>>, <<7296, 7304>>, <<7312, 7354>>, <<7357, 7359>>, <<7424, 7615>>,
      <<7680, 7957>>, <<7960, 7965>>, <<7968, 8005>>, <<8008, 8013>>, <<8016, 8023>>,
      <<8025, 8025>>, <<8027, 8027>>, <<8029, 8029>>, <<8031, 8061>>, <<8064, 8116>>,
      <<8118, 8124>>, <<8126, 8126>>, <<8130, 8132>>, <<8134, 8140>>, <<8144, 8147>>,
      <<8150, 8155>>, <<8160, 8172>>, <<8178, 8180>>, <<8182, 8188>>, <<8305, 8305>>,
      <<8319, 8319>>, <<8336, 8348>>, <<8450, 8450>>, <<8455, 8455>>, <<8458, 8467>>,
      <<8469, 8469>>, <<8473, 8477>>, <<8484, 8484>>, <<8486, 8486>>, <<8488, 8488>>,
      <<8490, 8493>>, <<8495, 8500>>, <<8505, 8505>>, <<8508, 8511>>, <<8517, 8521>>,
      <<8526, 8526>>, <<8544, 8575>>, <<8579, 8580>>, <<9398, 9449>>, <<11264, 11492>>,
      <<11499, 11502>>, <<11506, 11507>>, <<11520, 11557>>, <<11559, 11559>>,
      <<11565, 11565>>, <<42560, 42605>>, <<42624, 42653>>, <<42786, 42887>>,
      <<42891, 42894>>, <<42896, 42954>>, <<42960, 42961>>, <<42963, 42963>>,
      <<42965, 42969>>, <<42997, 42998>>, <<43000, 43002>>, <<43824, 43866>>,
      <<43868, 43880>>, <<43888, 43967>>, <<64256, 64262>>, <<64275, 64279>>,
      <<65313, 65338>>, <<65345, 65370>>, <<66560, 66639>>, <<66736, 66771>>,
      <<66776, 66811>>, <<66928, 66938>>, <<66940, 66954>>, <<66956, 66962>>,
      <<66964, 66965>>, <<66967, 66977>>, <<66979, 66993>>, <<66995, 67001>>,
      <<67003, 67004>>, <<67456, 67456>>, <<67459, 67461>>, <<67463, 67504>>,
      <<67506, 67514>>, <<68736, 68786>>, <<68800, 68850>>, <<71840, 71903>>,
      <<93760, 93823>>, <<119808, 119892>>, <<119894, 119964>>, <<119966, 119967>>,
      <<119970, 119970>>, <<119973, 119974>>, <<119977, 119980>>, <<119982, 119993>>,
      <<119995, 119995>>, <<119997, 120003>>, <<120005, 120069>>, <<120071, 120074>>,
      <<120077, 120084>>, <<120086, 120092>>, <<120094, 120121>>, <<120123, 120126>>,
      <<120128, 120132>>, <<120134, 120134>>, <<120138, 120144>>, <<120146, 120485>>,
      <<120488, 120512>>, <<120514, 120538>>, <<120540, 120570>>, <<120572, 120596>>,
      <<120598, 120628>>, <<120630, 120654>>, <<120656, 120686>>, <<120688, 120712>>,
      <<120714, 120744>>, <<120746, 120770>>, <<120772, 120779>>, <<122624, 122633>>,
      <<122635, 122654>>, <<125184, 125251>>, <<127280, 127305>>, <<127312, 127337>>,
      <<127344, 127369>>>>

CaseIgnorableRanges ==
    <<<<39, 39>>, <<46, 46>>, <<58, 58>>, <<94, 94>>, <<96, 96>>, <<168, 168>>,
      <<173, 173>>, <<175, 175>>, <<180, 180>>, <<183, 184>>, <<688, 879>>, <<884, 885>>,
      <<890, 890>>, <<900, 901>>, <<903, 903>>, <<1155, 1161>>, <<1369, 1369>>,
      <<1375, 1375>>, <<1425, 1469>>, <<1471, 1471>>, <<1473, 1474>>, <<1476, 1477>>,
      <<1479, 1479>>, <<1524, 1524>>, <<1536, 1541>>, <<1552, 1562>>, <<1564, 1564>>,
      <<1600, 1600>>, <<1611, 1631>>, <<1648, 1648>>, <<1750, 1757>>, <<1759, 1768>>,
      <<1770, 1773>>, <<1807, 1807>>, <<1809, 1809>>, <<1840, 1866>>, <<1958, 1968>>,
      <<2027, 2037>>, <<2042, 2042>>, <<2045, 2045>>, <<2070, 2093>>, <<2137, 2139>>,
      <<2184, 2184>>, <<2192, 2193>>, <<2200, 2207>>, <<2249, 2306>>, <<2362, 2362>>,
      <<2364, 2364>>, <<2369, 2376>>, <<2381, 2381>>, <<2385, 2391>>, <<2402, 2403>>,
      <<2417, 2417>>, <<2433, 2433>>, <<2492, 2492>>, <<2497, 2500>>, <<2509, 2509>>,
      <<2530, 2531>>, <<2558, 2558>>, <<2561, 2562>>, <<2620, 2620>>, <<2625, 2626>>,
      <<2631, 2632>>, <<2635, 2637>>, <<2641, 2641>>, <<2672, 2673>>, <<2677, 2677>>,
      <<2689, 2690>>, <<2748, 2748>>, <<2753, 2757>>, <<2759, 2760>>, <<2765, 2765>>,
      <<2786, 2787>>, <<2810, 2815>>, <<2817, 2817>>, <<2876, 2876>>, <<2879, 2879>>,
      <<2881, 2884>>, <<2893, 2893>>, <<2901, 2902>>, <<2914, 2915>>, <<2946, 2946>>,
      <<3008, 3008>>, <<3021, 3021>>, <<3072, 3072>>, <<3076, 3076>>, <<3132, 3132>>,
      <<3134, 3136>>, <<3142, 3144>>, <<3146, 3149>>, <<3157, 3158>>, <<3170, 3171>>,
      <<3201, 3201>>, <<3260, 3260>>, <<3263, 3263>>, <<3270, 3270>>, <<3276, 3277>>,
      <<3298, 3299>>, <<3328, 3329>>, <<3387, 3388>>, <<3393, 3396>>, <<3405, 3405>>,
      <<3426, 3427>>, <<3457, 3457>>, <<3530, 3530>>, <<3538, 3540>>, <<3542, 3542>>,
      <<3633, 3633>>, <<3636, 3642>>, <<3654, 3662>>, <<3761, 3761>>, <<3764, 3772>>,
      <<3782, 3782>>, <<3784, 3789>>, <<3864, 3865>>, <<3893, 3893>>, <<3895, 3895>>,
      <<3897, 3897>>, <<3953, 3966>>, <<3968, 3972>>, <<3974, 3975>>, <<3981, 3991>>,
      <<3993, 4028>>, <<4038, 4038>>, <<4141, 4144>>, <<4146, 4151>>, <<4153, 4154>>,
      <<4157, 4158>>, <<4184, 4185>>, <<4190, 4192>>, <<4209, 4212>>, <<4226, 4226>>,
      <<4229, 4230>>, <<4237, 4237>>, <<4253, 4253>>, <<4348, 4348>>, <<4957, 4959>>,
      <<5906, 5908>>, <<5938, 5939>>, <<5970, 5971>>, <<6002, 6003>>, <<6068, 6069>>,
      <<6071, 6077>>, <<6086, 6086>>, <<6089, 6099>>, <<6103, 6103>>, <<6109, 6109>>,
      <<6155, 6159>>, <<6211, 6211>>, <<6277, 6278>>, <<6313, 6313>>, <<6432, 6434>>,
      <<6439, 6440>>, <<6450, 6450>>, <<6457, 6459>>, <<6679, 6680>>, <<6683, 6683>>,
      <<6742, 6742>>, <<6744, 6750>>, <<6752, 6752>>, <<6754, 6754>>, <<6757, 6764>>,
      <<6771, 6780>>, <<6783, 6783>>, <<6823, 6823>>, <<6832, 6862>>, <<6912, 6915>>,
      <<6964, 6964>>, <<6966, 6970>>, <<6972, 6972>>, <<6978, 6978>>, <<7019, 7027>>,
      <<7040, 7041>>, <<7074, 7077>>, <<7080, 7081>>, <<7083, 7085>>, <<7142, 7142>>,
      <<7144, 7145>>, <<7149, 7149>>, <<7151, 7153>>, <<7212, 7219>>, <<7222, 7223>>,
      <<7288, 7293>>, <<7376, 7378>>, <<7380, 7392>>, <<7394, 7400>>, <<7405, 7405>>,
      <<7412, 7412>>, <<7416, 7417>>, <<7468, 7530>>, <<7544, 7544>>, <<7579, 7679>>,
      <<8125, 8125>>, <<8127, 8129>>, <<8141, 8143>>, <<8157, 8159>>, <<8173, 8175>>,
      <<8189, 8190>>, <<8203, 8207>>, <<8216, 8217>>, <<8228, 8228>>, <<8231, 8231>>,
      <<8234, 8238>>, <<8288, 8292>>, <<8294, 8303>>, <<8305, 8305>>, <<8319, 8319>>,
      <<8336, 8348>>, <<8400, 8432>>, <<11388, 11389>>, <<11503, 11505>>,
      <<11631, 11631>>, <<11647, 11647>>, <<11744, 11775>>, <<11823, 11823>>,
      <<12293, 12293>>, <<12330, 12333>>, <<12337, 12341>>, <<12347, 12347>>,
      <<12441, 12446>>, <<12540, 12542>>, <<40981, 40981>>, <<42232, 42237>>,
      <<42508, 42508>>, <<42607, 42610>>, <<42612, 42621>>, <<42623, 42623>>,
      <<42652, 42655>>, <<42736, 42737>>, <<42752, 42785>>, <<42864, 42864>>,
      <<42888, 42890>>, <<42994, 42996>>, <<43000, 43001>>, <<43010, 43010>>,
      <<43014, 43014>>, <<43019, 43019>>, <<43045, 43046>>, <<43052, 43052>>,
      <<43204, 43205>>, <<43232, 43249>>, <<43263, 43263>>, <<43302, 43309>>,
      <<43335, 43345>>, <<43392, 43394>>, <<43443, 43443>>, <<43446, 43449>>,
      <<43452, 43453>>, <<43471, 43471>>, <<43493, 43494>>, <<43561, 43566>>,
      <<43569, 43570>>, <<43573, 43574>>, <<43587, 43587>>, <<43596, 43596>>,
      <<43632, 43632>>, <<43644, 43644>>, <<43696, 43696>>, <<43698, 43700>>,
      <<43703, 43704>>, <<43710, 43711>>, <<43713, 43713>>, <<43741, 43741>>,
      <<43756, 43757>>, <<43763, 43764>>, <<43766, 43766>>, <<43867, 43871>>,
      <<43881, 43883>>, <<44005, 44005>>, <<44008, 44008>>, <<44013, 44013>>,
      <<64286, 64286>>, <<64434, 64450>>, <<65024, 65039>>, <<65043, 65043>>,
      <<65056, 65071>>, <<65106, 65106>>, <<65109, 65109>>, <<65279, 65279>>,
      <<65287, 65287>>, <<65294, 65294>>, <<65306, 65306>>, <<65342, 65342>>,
      <<65344, 65344>>, <<65392, 65392>>, <<65438, 65439>>, <<65507, 65507>>,
      <<65529, 65531>>, <<66045, 66045>>, <<66272, 66272>>, <<66422, 66426>>,
      <<67456, 67461>>, <<67463, 67504>>, <<67506, 67514>>, <<68097, 68099>>,
      <<68101, 68102>>, <<68108, 68111>>, <<68152, 68154>>, <<68159, 68159>>,
      <<68325, 68326>>, <<68900, 68903>>, <<69291, 69292>>, <<69446, 69456>>,
      <<69506, 69509>>, <<69633, 69633>>, <<69688, 69702>>, <<69744, 69744>>,
      <<69747, 69748>>, <<69759, 69761>>, <<69811, 69814>>, <<69817, 69818>>,
      <<69821, 69821>>, <<69826, 69826>>, <<69837, 69837>>, <<69888, 69890>>,
      <<69927, 69931>>, <<69933, 69940>>, <<70003, 70003>>, <<70016, 70017>>,
      <<70070, 70078>>, <<70089, 70092>>, <<70095, 70095>>, <<70191, 70193>>,
      <<70196, 70196>>, <<70198, 70199>>, <<70206, 70206>>, <<70367, 70367>>,
      <<70371, 70378>>, <<70400, 70401>>, <<70459, 70460>>, <<70464, 70464>>,
      <<70502, 70508>>, <<70512, 70516>>, <<70712, 70719>>, <<70722, 70724>>,
      <<70726, 70726>>, <<70750, 70750>>, <<70835, 70840>>, <<70842, 70842>>,
      <<70847, 70848>>, <<70850, 70851>>, <<71090, 71093>>, <<71100, 71101>>,
      <<71103, 71104>>, <<71132, 71133>>, <<71219, 71226>>, <<71229, 71229>>,
      <<71231, 71232>>, <<71339, 71339>>, <<71341, 71341>>, <<71344, 71349>>,
      <<71351, 71351>>, <<71453, 71455>>, <<71458, 71461>>, <<71463, 71467>>,
      <<71727, 71735>>, <<71737, 71738>>, <<71995, 71996>>, <<71998, 71998>>,
      <<72003, 72003>>, <<72148, 72151>>, <<72154, 72155>>, <<72160, 72160>>,
      <<72193, 72202>>, <<72243, 72248>>, <<72251, 72254>>, <<72263, 72263>>,
      <<72273, 72278>>, <<72281, 72283>>, <<72330, 72342>>, <<72344, 72345>>,
      <<72752, 72758>>, <<72760, 72765>>, <<72767, 72767>>, <<72850, 72871>>,
      <<72874, 72880>>, <<72882, 72883>>, <<72885, 72886>>, <<73009, 73014>>,
      <<73018, 73018>>, <<73020, 73021>>, <<73023, 73029>>, <<73031, 73031>>,
      <<73104, 73105>>, <<73109, 73109>>, <<73111, 73111>>, <<73459, 73460>>,
      <<78896, 78904>>, <<92912, 92916>>, <<92976, 92982>>, <<92992, 92995>>,
      <<94031, 94031>>, <<94095, 94111>>, <<94176, 94177>>, <<94179, 94180>>,
      <<110576, 110579>>, <<110581, 110587>>, <<110589, 110590>>, <<113821, 113822>>,
      <<113824, 113827>>, <<118528, 118573>>, <<118576, 118598>>, <<119143, 119145>>,
      <<119155, 119170>>, <<119173, 119179>>, <<119210, 119213>>, <<119362, 119364>>,
      <<121344, 121398>>, <<121403, 121452>>, <<121461, 121461>>, <<121476, 121476>>,
      <<121499, 121503>>, <<121505, 121519>>, <<122880, 122886>>, <<122888, 122904>>,
      <<122907, 122913>>, <<122915, 122916>>, <<122918, 122922>>, <<123184, 123197>>,
      <<123566, 123566>>, <<123628, 123631>>, <<125136, 125142>>, <<125252, 125259>>,
      <<127995, 127999>>, <<917505, 917505>>, <<917536, 917631>>, <<917760, 917999>>>>

Cased(c) == InRanges(c, CasedRanges)
CaseIgnorable(c) == InRanges(c, CaseIgnorableRanges)

\* A capital sigma closes a word: skipping the case-ignorable characters, a cased
\* letter stands ahead of it and none behind it
FinalSigma(s, i) ==
    LET ahead == {j \in 1..(i - 1) : ~CaseIgnorable(s[j])}
        behind == {j \in (i + 1)..Len(s) : ~CaseIgnorable(s[j])}
    IN  /\ ahead # {}
        /\ Cased(s[CHOOSE j \in ahead : \A k \in ahead : k <= j])
        /\ behind = {} \/ ~Cased(s[CHOOSE j \in behind : \A k \in behind : j <= k])

LowerChar(s, i) ==
    IF s[i] = 931 THEN (IF FinalSigma(s, i) THEN <<962>> ELSE <<963>>)
    ELSE LowerOf(s[i])

Lower(s) == Flat([i \in 1..Len(s) |-> LowerChar(s, i)])

---------------------------------------------------------------------------
(* Operations on strs and lists *)

\* q in s, for two strs
Contains(s, q) == \E i \in 1..(Len(s) - Len(q) + 1) : SubSeq(s, i, i + Len(q) - 1) = q

\* key in v, for a str key: a key of a dict, an item of a list, a part of a str;
\* TypeError for a value that holds nothing
PyContains(v, key) ==
    CASE v.t = "obj" -> Ok(HasKey(v, key))
      [] v.t = "list" -> Ok(\E i \in 1..Len(v.l) : v.l[i] = PyStr(key))
      [] v.t = "str" -> Ok(Contains(v.s, key))
      [] v.t \in {"null", "bool", "int", "float"} -> Raise("TypeError")

\* s[:n]
Prefix(s, n) == SubSeq(s, 1, IF Len(s) < n THEN Len(s) ELSE n)

SeqsUpTo(S, n) == UNION {[1..k -> S] : k \in 0..n}

---------------------------------------------------------------------------
\* config.settings.RAG_CONFIG, as the deployment sets it
RAG_CONFIG == [api_url |-> Str("http://rag.local/query"), timeout |-> 30]

(* RAGClient, src/utils/rag_client.py *)

\* One chunk of the loop of _transform_response (lines 73-84).  chunk.get is an
\* AttributeError on a chunk that is no dict; float() raises on None and on text
\* that is no number.
TransformedChunk(chunk, score) ==
    IF Raised(score) THEN score
    ELSE Ok(PyDict(<<
        Entry("content", DictGet(chunk, Str("content"), PyText(""))),
        Entry("source", PyStr(Str("rag:")
                              \o Format(DictGet(chunk, Str("file"), PyText("unknown"))))),
        Entry("score", score.ok),
        Entry("metadata", PyDict(<<
            Entry("file", DictGet(chunk, Str("file"), PyText(""))),
            Entry("index", DictGet(chunk, Str("index"), PyInt(0))),
            Entry("rag_source", PyText("external_api"))>>)),
        Entry("document_id", PyStr(Format(DictGet(chunk, Str("file"), PyText("unknown")))
                              \o Str("_")
                              \o Format(DictGet(chunk, Str("index"), PyInt(0))))),
        Entry("folder", PyText("rag_api"))>>))

TransformChunk(chunk) ==
    IF ~IsDict(chunk) THEN Raise("AttributeError")
    ELSE TransformedChunk(chunk, ToFloat(DictGet(chunk, Str("score"), PyFloat(0, 0))))

\* Appended with the fragment put behind the ones that follow it
Appended_behind(first, rest) ==
    IF Raised(first) THEN first
    ELSE IF Raised(rest) THEN rest
    ELSE Ok(rest.ok \o <<first.ok>>)

\* transformed_chunks.append of line 84, after the chunks that follow: the first
\* exception, in the order of the loop, is the outcome
Appended(first, rest) ==
    IF Raised(first) THEN first
    ELSE IF Raised(rest) THEN rest
    ELSE Ok(<<first.ok>> \o rest.ok)

\* The for loop of lines 71-84: the chunks in order, the first exception ends it.
RECURSIVE TransformChunks(_)
TransformChunks(chunks) ==
    IF chunks = <<>> THEN Ok(<<>>)
    ELSE Appended(TransformChunk(Head(chunks)), TransformChunks(Tail(chunks)))

\* The loop of lines 71-84 over retrieved_chunks: a value that cannot be iterated
\* is a TypeError
TransformLoop(iterated) ==
    IF Raised(iterated) THEN iterated ELSE TransformChunks(iterated.ok)

\* The dict of lines 86-100, once the loop has ended
TransformedResponse(api_response, original_query, groq_answer, transformed_chunks) ==
    IF Raised(transformed_chunks) THEN transformed_chunks
    ELSE Ok(PyDict(<<
        Entry("response", PyList(transformed_chunks.ok)),
        Entry("groq_answer", groq_answer),
        Entry("method", PyText("rag_api")),
        Entry("total_results", PyInt(Len(transformed_chunks.ok))),
        Entry("status", PyInt(200)),
        Entry("timestamp", DictGet(api_response, Str("timestamp"), PyText(""))),
        Entry("query", PyStr(original_query)),
        Entry("metadata", PyDict(<<
            Entry("tags", PyList(<<PyText("semantic_search"), PyText("rag_api"),
                              PyText("groq_enhanced")>>)),
            Entry("retriever", PyText("external_rag_api")),
            Entry("total_results", PyInt(Len(transformed_chunks.ok))),
            Entry("has_groq_answer", PyBool(Truthy(groq_answer)))>>))>>))

RAGClient_transform_response(self, api_response, original_query) ==
    IF ~IsDict(api_response) THEN Raise("AttributeError")
    ELSE TransformedResponse(
            api_response, original_query,
            DictGet(api_response, Str("groq_answer"), PyText("")),
            TransformLoop(PyIter(DictGet(api_response, Str("retrieved_chunks"), PyList(<<>>)))))

\* The fixed text of the fallback, around the query (lines 108 and 115)
FallbackContentOpening ==
    Str("I apologize, but I'm currently unable to access the knowledge base. "
        \o "Your query was: '")
FallbackAnswerOpening ==
    Str("I apologize, but I'm currently unable to access the knowledge base to "
        \o "provide a comprehensive answer to your query: '")
FallbackAnswerEnding == Str("'. Please try again later.")

\* The fallback with total_results taken from top_k
RAGClient_create_fallback_response_top_k(self, query, top_k) ==
    PyDict(<<
        Entry("response", PyList(<<PyDict(<<
            Entry("content", PyStr(FallbackContentOpening \o query \o Str("'"))),
            Entry("source", PyText("fallback:error")),
            Entry("score", PyFloat(1, 1)),
            Entry("metadata", PyDict(<<Entry("error", PyText("RAG API unavailable"))>>)),
            Entry("document_id", PyText("fallback-001")),
            Entry("folder", PyText("fallback"))>>)>>)),
        Entry("groq_answer", PyStr(FallbackAnswerOpening \o query \o FallbackAnswerEnding)),
        Entry("method", PyText("fallback")),
        Entry("total_results", PyInt(top_k)),
        Entry("status", PyInt(503)),
        Entry("timestamp", PyText("")),
        Entry("query", PyStr(query)),
        Entry("metadata", PyDict(<<
            Entry("tags", PyList(<<PyText("fallback"), PyText("error")>>)),
            Entry("retriever", PyText("none")),
            Entry("total_results", PyInt(top_k)),
            Entry("error", PyText("RAG API unavailable"))>>))>>)

RAGClient_create_fallback_response(self, query, top_k) ==
    PyDict(<<
        Entry("response", PyList(<<PyDict(<<
            Entry("content", PyStr(FallbackContentOpening \o query \o Str("'"))),
            Entry("source", PyText("fallback:error")),
            Entry("score", PyFloat(1, 1)),
            Entry("metadata", PyDict(<<Entry("error", PyText("RAG API unavailable"))>>)),
            Entry("document_id", PyText("fallback-001")),
            Entry("folder", PyText("fallback"))>>)>>)),
        Entry("groq_answer", PyStr(FallbackAnswerOpening \o query \o FallbackAnswerEnding)),
        Entry("method", PyText("fallback")),
        Entry("total_results", PyInt(1)),
        Entry("status", PyInt(503)),
        Entry("timestamp", PyText("")),
        Entry("query", PyStr(query)),
        Entry("metadata", PyDict(<<
            Entry("tags", PyList(<<PyText("fallback"), PyText("error")>>)),
            Entry("retriever", PyText("none")),
            Entry("total_results", PyInt(1)),
            Entry("error", PyText("RAG API unavailable"))>>))>>)

\* The try block taking every 2xx status for a success
RAGClient_query_try_any_2xx(self, query, top_k, http) ==
    IF http.kind = "raise" THEN Raise(http.exc)
    ELSE IF http.status_code \in 200..299 THEN
        IF Raised(http.json) THEN http.json
        ELSE IF ~IsDict(http.json.ok) THEN Raise("AttributeError")
        ELSE IF Raised(PyLen(DictGet(http.json.ok, Str("retrieved_chunks"), PyList(<<>>))))
        THEN Raise("TypeError")
        ELSE RAGClient_transform_response(self, http.json.ok, query)
    ELSE Ok(RAGClient_create_fallback_response(self, query, top_k))

\* The try block of query, lines 36-59: what it returns, or the exception that
\* leaves it.  Line 53 takes len() of the chunks before _transform_response runs.
RAGClient_query_try(self, query, top_k, http) ==
    IF http.kind = "raise" THEN Raise(http.exc)
    ELSE IF http.status_code = 200 THEN
        IF Raised(http.json) THEN http.json
        ELSE IF ~IsDict(http.json.ok) THEN Raise("AttributeError")
        ELSE IF Raised(PyLen(DictGet(http.json.ok, Str("retrieved_chunks"), PyList(<<>>))))
        THEN Raise("TypeError")
        ELSE RAGClient_transform_response(self, http.json.ok, query)
    ELSE Ok(RAGClient_create_fallback_response(self, query, top_k))

\* The except branch of query, lines 61-63: every exception of the try block ends
\* in the fallback
RAGClient_query_except(attempt, self, query, top_k) ==
    IF Raised(attempt) THEN Ok(RAGClient_create_fallback_response(self, query, top_k))
    ELSE attempt

\* What session.post did is the argument http: it raised (a timeout, a transport
\* error), or it returned a response with a status code whose json() is a value or
\* raises.
RAGClient_query(self, query, top_k, http) ==
    RAGClient_query_except(RAGClient_query_try(self, query, top_k, http), self, query, top_k)

\* The request of lines 38-49
RAGClient_request(self, query, top_k) ==
    [url |-> self.api_url, headers |-> self.headers,
     json |-> PyDict(<<Entry("query", PyStr(query)), Entry("top_k", PyInt(top_k))>>),
     timeout |-> RAG_CONFIG.timeout]

\* A raise of the probe query, or a result without "status", is the except branch.
HealthOf(self, test_response) ==
    IF Raised(test_response) \/ ~HasKey(test_response.ok, Str("status"))
    THEN Ok(PyDict(<<
            Entry("status", PyText("unhealthy")),
            Entry("error", PyStr(IF Raised(test_response) THEN Str(test_response.exc)
                                 ELSE Str("'status'"))),
            Entry("api_url", self.api_url)>>))
    ELSE Ok(PyDict(<<
            Entry("status", IF Get(test_response.ok, "status") = PyInt(200)
                            THEN PyText("healthy") ELSE PyText("unhealthy")),
            Entry("response_time", PyText("ok")),
            Entry("api_url", self.api_url)>>))

RAGClient_health_check(self, http) ==
    HealthOf(self, RAGClient_query(self, Str("test"), 1, http))

\* api_url is the argument as a Python value, None by default: a false one (None, "")
\* gives way to the configured URL
RAGClient_init(api_url) ==
    [api_url |-> IF Truthy(api_url) THEN api_url ELSE PyStr(RAG_CONFIG.api_url),
     headers |-> [Content_Type |-> Str("application/json"),
                  User_Agent |-> Str("BHIV-Core-RAG-Client/1.0")]]

---------------------------------------------------------------------------
(* EduMentorAgent, src/agents/edumentor_agent.py *)

EduMentorAgent_init ==
    [name |-> Str("EduMentorAgent"),
     description |-> Str("Educational mentor providing structured learning guidance"),
     persona |-> Str("educational_mentor"),
     educational_keywords |->
        <<Str("learn"), Str("teach"), Str("explain"), Str("understand"), Str("study"),
          Str("education"), Str("concept"), Str("theory"), Str("practice"),
          Str("example"), Str("exercise"), Str("assessment"), Str("knowledge"),
          Str("skill"), Str("competency"), Str("curriculum"), Str("pedagogy")>>]

\* " ".join(strs)
RECURSIVE JoinSpace(_)
JoinSpace(strs) ==
    IF strs = <<>> THEN <<>>
    ELSE IF Len(strs) = 1 THEN strs[1]
    ELSE strs[1] \o Str(" ") \o JoinSpace(Tail(strs))

\* The whole list, whatever n
Take_all(l, n) == l

\* l[:n] of a list
Take(l, n) == SubSeq(l, 1, IF Len(l) < n THEN Len(l) ELSE n)

\* The loop of lines 47-58 over the first three results: the contents and the
\* sources, or the TypeError of slicing a content that is no str.
KnowledgeStep(result, rest) ==
    IF ~(IsDict(result) /\ HasKey(result, Str("content"))) THEN rest
    ELSE IF ~IsStr(Get(result, "content")) THEN Raise("TypeError")
    ELSE IF Raised(rest) THEN rest
    ELSE Ok([
        contexts |-> <<Get(result, "content").s>> \o rest.ok.contexts,
        sources |-> <<PyDict(<<
            Entry("content", PyStr(Prefix(Get(result, "content").s, 200) \o Str("..."))),
            Entry("source", DictGet(result, Str("source"), PyText("unknown"))),
            Entry("score", DictGet(result, Str("score"), PyFloat(0, 0))),
            Entry("document_id", DictGet(result, Str("document_id"), PyText(""))),
            Entry("folder", DictGet(result, Str("folder"), PyText("rag_api")))>>)>>
            \o rest.ok.sources])

RECURSIVE KnowledgeLoop(_)
KnowledgeLoop(results) ==
    IF results = <<>> THEN Ok([contexts |-> <<>>, sources |-> <<>>])
    ELSE KnowledgeStep(Head(results), KnowledgeLoop(Tail(results)))

\* _get_knowledge_context, given what the retrieval service did: the pair
\* (context_text, sources).  Every exception ends in ("", []) (lines 66-68).
NoKnowledge == [context_text |-> <<>>, sources |-> <<>>]

\* Lines 60-62, after the loop: the joined contents and the sources
KnowledgeOf(looped) ==
    IF Raised(looped) THEN NoKnowledge
    ELSE [context_text |-> JoinSpace(looped.ok.contexts), sources |-> looped.ok.sources]

\* Lines 46-64, on the response of the retrieval client
KnowledgeFrom(response) ==
    IF Raised(response) \/ ~IsDict(response.ok) THEN NoKnowledge
    ELSE IF /\ DictGet(response.ok, Str("status"), PyNone) = PyInt(200)
            /\ Truthy(DictGet(response.ok, Str("response"), PyNone))
    THEN KnowledgeOf(IF Get(response.ok, "response").t # "list" THEN Raise("TypeError")
                     ELSE KnowledgeLoop(Take(Get(response.ok, "response").l, 3)))
    ELSE NoKnowledge

EduMentorAgent_get_knowledge_context(self, rag, query, http) ==
    KnowledgeFrom(RAGClient_query(rag, Str("Educational learning guidance: ") \o query, 5,
                                  http))

PromptHead ==
    Str("As an experienced educational mentor and guide, provide structured, clear, and "
        \o "effective learning support for: \"")

PromptTail ==
    Str("\n\n"
    \o "Please respond as a patient and encouraging teacher who:\n"
    \o "- Explains concepts clearly and systematically\n"
    \o "- Uses appropriate educational scaffolding\n"
    \o "- Provides practical examples and applications\n"
    \o "- Encourages critical thinking and understanding\n"
    \o "- Adapts explanations to different learning styles\n"
    \o "- Promotes active learning and engagement\n"
    \o "\n"
    \o "Your response should include:\n"
    \o "- Clear explanations of key concepts\n"
    \o "- Step-by-step guidance when appropriate\n"
    \o "- Practical examples or analogies\n"
    \o "- Encouragement for further exploration\n"
    \o "- Assessment of understanding\n"
    \o "\n"
    \o "Educational Guidance:")

\* The prompt of lines 74-93
EnhancementPrompt(query, context) ==
    PromptHead \o query \o Str("\"\n\n")
    \o (IF context # <<>> THEN Str("Educational Context: ") \o context
        ELSE Str("Draw from established educational principles and best practices."))
    \o PromptTail

\* The fixed parts of the text of _fallback_response (lines 109-116)
FallbackGreeting == Str("As your educational mentor, I'm here to help you understand '")
ContextLeadIn == Str("Based on educational principles: ")
GenericSentence ==
    Str("Learning is a journey of discovery. Let's break this down step by step.")
EncouragementSuffix ==
    Str("\n\nRemember, understanding comes from consistent practice and asking questions. "
        \o "Keep exploring!")

\* The fallback text quoting the whole knowledge context
EduMentorAgent_fallback_response_whole_context(self, query, context) ==
    FallbackGreeting \o query \o Str("'. ")
    \o (IF context # <<>> THEN ContextLeadIn \o context \o Str("...")
        ELSE GenericSentence)
    \o EncouragementSuffix

\* _fallback_response, lines 107-117
EduMentorAgent_fallback_response(self, query, context) ==
    FallbackGreeting \o query \o Str("'. ")
    \o (IF context # <<>> THEN ContextLeadIn \o Prefix(context, 500) \o Str("...")
        ELSE GenericSentence)
    \o EncouragementSuffix

\* _enhance_with_groq taking the completion's word for its success
EduMentorAgent_enhance_with_groq_trusting(self, query, context, groq) ==
    IF groq.kind = "raise"
    THEN [text |-> PyStr(EduMentorAgent_fallback_response(self, query, context)),
          used |-> FALSE]
    ELSE IF Truthy(groq.success)
    THEN [text |-> groq.response, used |-> TRUE]
    ELSE [text |-> PyStr(EduMentorAgent_fallback_response(self, query, context)),
          used |-> FALSE]

\* _enhance_with_groq, given what groq_client.generate_response did: it raised, or
\* it returned the pair (response, success).
EduMentorAgent_enhance_with_groq(self, query, context, groq) ==
    IF groq.kind = "raise"
    THEN [text |-> PyStr(EduMentorAgent_fallback_response(self, query, context)),
          used |-> FALSE]
    ELSE IF Truthy(groq.success) /\ Truthy(groq.response)
    THEN [text |-> groq.response, used |-> TRUE]
    ELSE [text |-> PyStr(EduMentorAgent_fallback_response(self, query, context)),
          used |-> FALSE]

\* The record carrying an id of its own
ActionLogRecord_own_id(self, query, tid, context, srcs, used) ==
    [task_id |-> PyText("6f1c0d1e-uuid-a"),
     agent |-> self.name,
     model |-> IF used THEN Str("groq") ELSE Str("fallback"),
     action |-> Str("educational_guidance"),
     metadata |-> PyDict(<<
        Entry("query", PyStr(query)),
        Entry("knowledge_retrieved", PyBool(context # <<>>)),
        Entry("groq_enhanced", PyBool(used)),
        Entry("persona", PyStr(self.persona)),
        Entry("sources_count", PyInt(Len(srcs)))>>)]

\* The record of lines 133-145
ActionLogRecord(self, query, tid, context, srcs, used) ==
    [task_id |-> tid,
     agent |-> self.name,
     model |-> IF used THEN Str("groq") ELSE Str("fallback"),
     action |-> Str("educational_guidance"),
     metadata |-> PyDict(<<
        Entry("query", PyStr(query)),
        Entry("knowledge_retrieved", PyBool(context # <<>>)),
        Entry("groq_enhanced", PyBool(used)),
        Entry("persona", PyStr(self.persona)),
        Entry("sources_count", PyInt(Len(srcs)))>>)]

MatchedKeywords(self, query) ==
    LET lowered == Lower(query)
        Matches(kw) == Contains(lowered, kw)
    IN  [i \in 1..Len(SelectSeq(self.educational_keywords, Matches)) |->
            PyStr(SelectSeq(self.educational_keywords, Matches)[i])]

\* The envelope naming "groq" as its enhancement method whatever the flag
SuccessEnvelope_groq_method(self, query, tid, context, srcs, text, used, now) ==
    PyDict(<<
        Entry("response", text),
        Entry("query_id", tid),
        Entry("query", PyStr(query)),
        Entry("agent", PyStr(self.name)),
        Entry("persona", PyStr(self.persona)),
        Entry("knowledge_context_used", PyBool(context # <<>>)),
        Entry("groq_enhanced", PyBool(used)),
        Entry("sources", PyList(srcs)),
        Entry("rag_data", PyDict(<<
            Entry("total_sources", PyInt(Len(srcs))),
            Entry("method", PyText("rag_api_enhanced")),
            Entry("knowledge_context_length", PyInt(Len(context))),
            Entry("has_groq_answer", PyBool(used))>>)),
        Entry("timestamp", PyStr(now)),
        Entry("status", PyText("success")),
        Entry("metadata", PyDict(<<
            Entry("educational_keywords", PyList(MatchedKeywords(self, query))),
            Entry("guidance_type", PyText("educational_mentoring")),
            Entry("enhancement_method", PyText("groq"))>>))>>)

\* The envelope of lines 148-170
SuccessEnvelope(self, query, tid, context, srcs, text, used, now) ==
    PyDict(<<
        Entry("response", text),
        Entry("query_id", tid),
        Entry("query", PyStr(query)),
        Entry("agent", PyStr(self.name)),
        Entry("persona", PyStr(self.persona)),
        Entry("knowledge_context_used", PyBool(context # <<>>)),
        Entry("groq_enhanced", PyBool(used)),
        Entry("sources", PyList(srcs)),
        Entry("rag_data", PyDict(<<
            Entry("total_sources", PyInt(Len(srcs))),
            Entry("method", PyText("rag_api_enhanced")),
            Entry("knowledge_context_length", PyInt(Len(context))),
            Entry("has_groq_answer", PyBool(used))>>)),
        Entry("timestamp", PyStr(now)),
        Entry("status", PyText("success")),
        Entry("metadata", PyDict(<<
            Entry("educational_keywords", PyList(MatchedKeywords(self, query))),
            Entry("guidance_type", PyText("educational_mentoring")),
            Entry("enhancement_method",
                  IF used THEN PyText("groq") ELSE PyText("fallback"))>>))>>)

\* The text of line 180
ErrorResponseText ==
    Str("I apologize, but I'm experiencing difficulties providing educational guidance "
        \o "at this moment. Please try again later.")

\* The envelope of the except branch, lines 179-187; e is str(e), the message of the
\* exception
ErrorEnvelope(self, query, tid, e, now) ==
    PyDict(<<
        Entry("response", PyStr(ErrorResponseText)),
        Entry("query_id", tid),
        Entry("query", PyStr(query)),
        Entry("agent", PyStr(self.name)),
        Entry("status", PyText("error")),
        Entry("error", PyStr(e)),
        Entry("timestamp", PyStr(now))>>)

\* The except branch of process_query, lines 175-187: the error envelope is returned
EduMentorAgent_process_query_except(self, query, tid, e, now) ==
    Ok(ErrorEnvelope(self, query, tid, e, now))

\* health_check, given what the probes did: the retrieval probe's session.post, and
\* the two calls of groq_client.health_check (lines 213 and 214).
\* Line 207: rag_health.get("available", False)
RagApiAvailable(rag_health) ==
    IF Raised(rag_health) \/ ~IsDict(rag_health.ok) THEN PyBool(FALSE)
    ELSE DictGet(rag_health.ok, Str("available"), PyBool(FALSE))

\* Lines 213-214: groq_client.health_check() is called twice, and "available" is read
\* from the second result
GroqApiAvailable(groq1, groq2) ==
    IF groq1.kind = "raise" \/ groq2.kind = "raise" THEN PyBool(FALSE)
    ELSE IF ~IsDict(groq2.value) THEN PyBool(FALSE)
    ELSE DictGet(groq2.value, Str("available"), PyBool(FALSE))

\* The dict with the status left "healthy" unless both upstreams are unavailable
HealthReport_optimistic(self, rag_api_available, groq_api_available, now) ==
    Ok(PyDict(<<
        Entry("agent", PyStr(self.name)),
        Entry("status",
            IF ~Truthy(rag_api_available) /\ ~Truthy(groq_api_available)
            THEN PyText("degraded")
            ELSE PyText("healthy")),
        Entry("rag_api_available", rag_api_available),
        Entry("groq_api_available", groq_api_available),
        Entry("timestamp", PyStr(now))>>))

\* The dict of lines 196-202 with the overall status of lines 219-222
HealthReport(self, rag_api_available, groq_api_available, now) ==
    Ok(PyDict(<<
        Entry("agent", PyStr(self.name)),
        Entry("status",
            IF ~Truthy(rag_api_available) /\ ~Truthy(groq_api_available)
            THEN PyText("degraded")
            ELSE IF ~Truthy(rag_api_available) \/ ~Truthy(groq_api_available)
            THEN PyText("partial")
            ELSE PyText("healthy")),
        Entry("rag_api_available", rag_api_available),
        Entry("groq_api_available", groq_api_available),
        Entry("timestamp", PyStr(now))>>))

EduMentorAgent_health_check(self, rag, http, groq1, groq2, now) ==
    HealthReport(self, RagApiAvailable(RAGClient_health_check(rag, http)),
                 GroqApiAvailable(groq1, groq2), now)

---------------------------------------------------------------------------
(* VaaniClient, src/utils/vaani_client.py *)

\* A requests.Session with no header set by the client
NoHeaders == [h \in {} |-> <<>>]

\* Lines 19-24: the fields before the login of the constructor
VaaniClient_fields ==
    [base_url |-> Str("https://vaani-sentinel-gs6x.onrender.com"),
     username |-> Str("admin"),
     password |-> Str("secret"),
     token |-> PyNone,
     headers |-> NoHeaders]

\* A request as session.post / session.get receives it, with the session's headers
\* at that moment
VaaniRequest(self, method, path, json, timeout) ==
    [method |-> method, url |-> self.base_url \o path, headers |-> self.headers,
     json |-> json, timeout |-> timeout]

LoginPath == Str("/api/v1/auth/login")
CreatePath == Str("/api/v1/content/create")

\* The request of lines 30-36
LoginRequest(self) ==
    VaaniRequest(self, "POST", LoginPath,
                 PyDict(<<Entry("username", PyStr(self.username)),
                         Entry("password", PyStr(self.password))>>), 30)

\* session.headers[name] = value
WithHeader(self, name, value) ==
    [self EXCEPT !.headers = [h \in DOMAIN self.headers \cup {name} |->
                                IF h = name THEN value ELSE self.headers[h]]]

\* Lines 40-44: the token of the login response is cached and put in the headers
WithToken(self, access_token) ==
    WithHeader(WithHeader([self EXCEPT !.token = access_token],
                          "Authorization", Str("Bearer ") \o Format(access_token)),
               "Content-Type", Str("application/json"))

\* Lines 48 and 52: self.token = None
WithoutToken(self) == [self EXCEPT !.token = PyNone]

\* The client after _authenticate, given what session.post did on the login call.
\* data.get on a body that is no dict is an AttributeError, caught at line 50.
VaaniClient_authenticated(self, login) ==
    IF login.kind = "raise" THEN WithoutToken(self)
    ELSE IF login.status_code = 200 THEN
        IF Raised(login.json) THEN WithoutToken(self)
        ELSE IF ~IsDict(login.json.ok) THEN WithoutToken(self)
        ELSE WithToken(self, DictGet(login.json.ok, Str("access_token"), PyNone))
    ELSE WithoutToken(self)

\* _authenticate: the client after it, and the one request it sent
VaaniClient_authenticate(self, login) ==
    [self |-> VaaniClient_authenticated(self, login), sent |-> <<LoginRequest(self)>>]

\* _ensure_authenticated with a login on every call, as if the token were checked
\* against the service
VaaniClient_ensure_authenticated_always(self, login) ==
    VaaniClient_authenticate(self, login)

\* _ensure_authenticated, lines 54-57
VaaniClient_ensure_authenticated(self, login) ==
    IF ~Truthy(self.token) THEN VaaniClient_authenticate(self, login)
    ELSE [self |-> self, sent |-> <<>>]

\* __init__, lines 18-25
VaaniClient_init(login) == VaaniClient_authenticate(VaaniClient_fields, login)

\* The content_id _create_content_first returns, given what session.post did
CreatedContentId(create) ==
    IF create.kind = "raise" THEN PyNone
    ELSE IF create.status_code = 200 THEN
        IF Raised(create.json) THEN PyNone
        ELSE IF ~IsDict(create.json.ok) THEN PyNone
        ELSE DictGet(create.json.ok, Str("content_id"), PyNone)
    ELSE PyNone

\* _create_content_first, lines 59-84: the content_id (or None) and the request sent
VaaniClient_create_content_first(self, text, content_type, language, create) ==
    [content_id |-> CreatedContentId(create),
     sent |-> <<VaaniRequest(self, "POST", CreatePath,
                             PyDict(<<Entry("text", PyStr(text)),
                                     Entry("content_type", PyStr(content_type)),
                                     Entry("language", PyStr(language)),
                                     Entry("metadata",
                                           PyDict(<<Entry("source",
                                                          PyText("bhiv_agent"))>>))>>),
                             30)>>]

\* What an operation returns after its own request, as in lines 106-118: the body on
\* 200, {"error": failure} on another status, {"error": str(e)} on an exception
EndpointResult(endpoint, failure) ==
    IF endpoint.kind = "raise" THEN PyDict(<<Entry("error", PyStr(endpoint.message))>>)
    ELSE IF endpoint.status_code = 200 THEN
        IF Raised(endpoint.json) THEN PyDict(<<Entry("error", PyStr(endpoint.json.message))>>)
        ELSE endpoint.json.ok
    ELSE PyDict(<<Entry("error", PyStr(failure))>>)

\* No option beside the content_id
NoOptions == <<>>

\* The operation dropping the cached token when its endpoint answers 401
ContentOperation_expiring(auth, created, path, options, timeout, failure, endpoint) ==
    IF ~Truthy(created.content_id)
    THEN [self |-> auth.self,
          sent |-> auth.sent \o created.sent,
          result |-> Ok(PyDict(<<Entry("error", PyText("Failed to create content"))>>))]
    ELSE [self |-> IF endpoint.kind = "response" /\ endpoint.status_code = 401
                   THEN WithoutToken(auth.self) ELSE auth.self,
          sent |-> auth.sent \o created.sent
                   \o <<VaaniRequest(auth.self, "POST", path,
                                     PyDict(<<Entry("content_id", created.content_id)>>
                                            \o options),
                                     timeout)>>,
          result |-> Ok(EndpointResult(endpoint, failure))]

\* The body common to generate_content, translate_content, generate_voice and
\* analyze_content_security after _ensure_authenticated and _create_content_first:
\* without a content_id the operation ends, otherwise it posts to its own endpoint
\* a payload of the content_id and its options.
ContentOperation(auth, created, path, options, timeout, failure, endpoint) ==
    IF ~Truthy(created.content_id)
    THEN [self |-> auth.self,
          sent |-> auth.sent \o created.sent,
          result |-> Ok(PyDict(<<Entry("error", PyText("Failed to create content"))>>))]
    ELSE [self |-> auth.self,
          sent |-> auth.sent \o created.sent
                   \o <<VaaniRequest(auth.self, "POST", path,
                                     PyDict(<<Entry("content_id", created.content_id)>>
                                            \o options),
                                     timeout)>>,
          result |-> Ok(EndpointResult(endpoint, failure))]

\* The operation after _ensure_authenticated: _create_content_first on the client as
\* the login left it, then the rest
CreatingOperation(auth, text, content_type, language, create, path, options, timeout,
                  failure, endpoint) ==
    ContentOperation(auth,
                     VaaniClient_create_content_first(auth.self, text, content_type,
                                                      language, create),
                     path, options, timeout, failure, endpoint)

DefaultPlatformsArgument == PyList(<<PyText("twitter"), PyText("instagram"), PyText("linkedin")>>)

VaaniClient_generate_content(self, text, platforms, tone, language, login, create, endpoint) ==
    CreatingOperation(
        VaaniClient_ensure_authenticated(self, login), text, Str("tweet"), language, create,
        Str("/api/v1/agents/generate-content"),
        <<Entry("platforms",
                IF Truthy(platforms) THEN platforms ELSE DefaultPlatformsArgument),
          Entry("tone", PyStr(tone)),
          Entry("language", PyStr(language))>>,
        60, Str("Content generation failed"), endpoint)

VaaniClient_translate_content(self, text, target_languages, tone, login, create, endpoint) ==
    CreatingOperation(
        VaaniClient_ensure_authenticated(self, login), text, Str("tweet"), Str("en"), create,
        Str("/api/v1/multilingual/translate"),
        <<Entry("target_languages", target_languages), Entry("tone", PyStr(tone))>>,
        60, Str("Translation failed"), endpoint)

VaaniClient_generate_voice(self, text, language, tone, voice_tag, login, create, endpoint) ==
    CreatingOperation(
        VaaniClient_ensure_authenticated(self, login), text, Str("voice_script"), language, create,
        Str("/api/v1/agents/generate-voice"),
        <<Entry("language", PyStr(language)), Entry("tone", PyStr(tone)),
          Entry("voice_tag", PyStr(voice_tag))>>,
        60, Str("Voice generation failed"), endpoint)

\* The value generate_audio returns for the voice result voiced: a path made of a
\* fresh uuid4 when the result holds no "error", None when it does or when the test
\* itself raises
AudioPath(voiced, audio_id) ==
    IF Raised(voiced) THEN PyNone
    ELSE IF Raised(PyContains(voiced.ok, Str("error"))) THEN PyNone
    ELSE IF PyContains(voiced.ok, Str("error")).ok THEN PyNone
    ELSE PyStr(Str("/audio/") \o audio_id \o Str(".wav"))

AudioOf(voiced, audio_id) ==
    [self |-> voiced.self, sent |-> voiced.sent,
     result |-> Ok(AudioPath(voiced.result, audio_id))]

\* await generate_audio(text, language, voice): the voice argument is not used, the
\* tone and the voice tag are fixed; audio_id is what uuid4 gives
VaaniClient_generate_audio(self, text, language, voice, login, create, endpoint, audio_id) ==
    AudioOf(VaaniClient_generate_voice(self, text, language, Str("devotional"),
                                       language \o Str("_in_female_devotional"),
                                       login, create, endpoint),
            audio_id)

VaaniClient_analyze_content_security(self, text, login, create, endpoint) ==
    CreatingOperation(
        VaaniClient_ensure_authenticated(self, login), text, Str("tweet"), Str("en"), create,
        Str("/api/v1/security/analyze-content"),
        NoOptions,
        30, Str("Security analysis failed"), endpoint)

\* The operation after _ensure_authenticated when it sends one request of its own
DirectOperation(auth, request, result) ==
    [self |-> auth.self, sent |-> auth.sent \o <<request>>, result |-> Ok(result)]

\* The request is built on the client as the login left it
RequestingOperation(auth, method, path, json, result) ==
    DirectOperation(auth, VaaniRequest(auth.self, method, path, json, 30), result)

\* detect_language, lines 215-235: no content is created, the text itself is posted
VaaniClient_detect_language(self, text, login, endpoint) ==
    RequestingOperation(
        VaaniClient_ensure_authenticated(self, login), "POST",
        Str("/api/v1/multilingual/detect-language"),
        PyDict(<<Entry("content", PyStr(text))>>),
        EndpointResult(endpoint, Str("Language detection failed")))

\* The list operations returning the body of any response, whatever its status
ListResult_any_status(endpoint, default) ==
    IF endpoint.kind = "raise" THEN default
    ELSE IF Raised(endpoint.json) THEN default
    ELSE endpoint.json.ok

\* Lines 264-272: the body on 200, the default list otherwise
ListResult(endpoint, default) ==
    IF endpoint.kind = "raise" THEN default
    ELSE IF endpoint.status_code = 200 THEN
        IF Raised(endpoint.json) THEN default ELSE endpoint.json.ok
    ELSE default

DefaultPlatforms ==
    PyList(<<PyText("twitter"), PyText("instagram"), PyText("linkedin"), PyText("spotify")>>)

DefaultLanguages ==
    PyList(<<PyText("en"), PyText("hi"), PyText("sa"), PyText("mr"), PyText("gu"), PyText("ta"),
             PyText("te"), PyText("kn"), PyText("ml"), PyText("bn")>>)

VaaniClient_get_supported_platforms(self, login, endpoint) ==
    RequestingOperation(
        VaaniClient_ensure_authenticated(self, login), "GET",
        Str("/api/v1/agents/platforms"), PyNone,
        ListResult(endpoint, DefaultPlatforms))

VaaniClient_get_supported_languages(self, login, endpoint) ==
    RequestingOperation(
        VaaniClient_ensure_authenticated(self, login), "GET",
        Str("/api/v1/agents/languages"), PyNone,
        ListResult(endpoint, DefaultLanguages))

---------------------------------------------------------------------------
(* The upstream answers the model draws *)

\* The longest retrieved_chunks list the retrieval service returns
MaxChunks == 2

Absent == [t |-> "absent"]

\* A JSON object, given as its entries in the order of the document; the entries
\* whose value is Absent are left out
IsPresent(entry) == entry[2] # Absent
MkDict(entries) == PyDict(SelectSeq(entries, IsPresent))

\* The chunk of the scenario of the specification, and a second of the same schema
ChunkA ==
    PyDict(<<Entry("content", PyText("Dharma is duty")), Entry("file", PyText("veda1.txt")),
            Entry("score", PyFloat(9, 1)), Entry("index", PyInt(0))>>)
ChunkB ==
    PyDict(<<Entry("content", PyText("")), Entry("file", PyText("gita.txt")),
            Entry("score", PyInt(1)), Entry("index", PyInt(12))>>)

WellFormedChunks == {ChunkA, ChunkB}

\* A chunk whose content is longer than the 200 characters of a preview
Sutra == Str("Yoga is the stilling of the mind. ")
LongContent ==
    Sutra \o Sutra \o Sutra \o Sutra \o Sutra \o Sutra
    \o Str("Then the seer abides in itself.")
ChunkLong ==
    PyDict(<<Entry("content", PyStr(LongContent)), Entry("file", PyText("yoga.txt")),
            Entry("score", PyFloat(75, 2)), Entry("index", PyInt(3))>>)

\* Chunks with a field missing, null or of the wrong type, and a chunk that is no object
ChunkNoFields == EmptyDict
ChunkScoreNull ==
    PyDict(<<Entry("content", PyText("Karma")), Entry("file", PyText("veda2.txt")),
            Entry("score", PyNone), Entry("index", PyInt(1))>>)
ChunkScoreText ==
    PyDict(<<Entry("content", PyText("Karma")), Entry("file", PyText("veda2.txt")),
            Entry("score", PyText("high")), Entry("index", PyInt(1))>>)
ChunkScoreNumeral ==
    PyDict(<<Entry("content", PyText("Karma")), Entry("file", PyText("veda2.txt")),
            Entry("score", PyText("0.75")), Entry("index", PyInt(1))>>)
ChunkNullFields ==
    PyDict(<<Entry("content", PyNone), Entry("file", PyNone), Entry("score", PyFloat(5, 1))>>)

\* Scores float() reads from a text with an exponent or a sign, and fields of other
\* types: for the file a list holding a text with a form feed, a negative float for
\* the index, a score below 1e-4
ChunkScoreExponent ==
    PyDict(<<Entry("content", PyText("Karma")), Entry("file", PyText("veda2.txt")),
            Entry("score", PyText("1e3")), Entry("index", PyInt(1))>>)
ChunkScoreSigned ==
    PyDict(<<Entry("content", PyText("Karma")), Entry("file", PyText("veda2.txt")),
            Entry("score", PyText(" -1_0 ")), Entry("index", PyInt(1))>>)
ChunkOddFields ==
    PyDict(<<Entry("content", PyText("Karma")), Entry("file", PyList(<<PyText("a\fb")>>)),
            Entry("score", PyFloat(1, 5)), Entry("index", PyFloat(-5, 1))>>)

MalformedChunks == {ChunkNoFields, ChunkScoreNull, ChunkScoreText, ChunkNullFields, PyNone}

\* Scores float() reads from the digits of other scripts (fullwidth 12, after a
\* no-break space), rounds to a denormal (3e-324 is 5e-324), and reads from more
\* digits than a double keeps; a file that is a dict, written key by key in the
\* order of the document
ChunkScoreFullwidth ==
    PyDict(<<Entry("content", PyText("Karma")), Entry("file", PyText("veda2.txt")),
            Entry("score", PyStr(<<160, 65297, 65298>>)), Entry("index", PyInt(1))>>)
ChunkScoreDenormal ==
    PyDict(<<Entry("content", PyText("Karma")), Entry("file", PyText("veda2.txt")),
            Entry("score", PyText("3e-324")), Entry("index", PyInt(1))>>)
ChunkScoreLong ==
    PyDict(<<Entry("content", PyText("Karma")), Entry("file", PyText("veda2.txt")),
            Entry("score", PyText("12345678901")), Entry("index", PyInt(1))>>)
ChunkScoreLonger ==
    PyDict(<<Entry("content", PyText("Karma")), Entry("file", PyText("veda2.txt")),
            Entry("score", PyText("0.300000000000000044")), Entry("index", PyInt(1))>>)
ChunkDictFile ==
    PyDict(<<Entry("score", PyInt(2)),
            Entry("file", PyDict(<<Entry("b", PyInt(1)), Entry("a", PyInt(2))>>)),
            Entry("index", PyDict(<<Entry("a", PyInt(2)), Entry("b", PyInt(1))>>))>>)

RareChunks ==
    {ChunkScoreNumeral, ChunkScoreExponent, ChunkScoreSigned, ChunkOddFields,
     ChunkScoreFullwidth, ChunkScoreDenormal, ChunkScoreLong, ChunkScoreLonger,
     ChunkDictFile}

\* The lists of up to MaxChunks chunks
RagChunkLists ==
    {PyList(l) : l \in SeqsUpTo(WellFormedChunks \cup MalformedChunks, MaxChunks)}

\* retrieved_chunks that is absent, or no list (the loop visits the characters of a
\* str and the keys of a dict)
OddChunkLists ==
    {Absent, PyNone, PyText(""), PyText("ab"), PyInt(3),
     PyDict(<<Entry("b", PyInt(1)), Entry("a", PyInt(2))>>)}

\* groq_answer and timestamp: absent, null, empty, present
Extras ==
    {[groq_answer |-> Absent, timestamp |-> Absent],
     [groq_answer |-> PyNone, timestamp |-> PyText("2025-01-01T00:00:00")],
     [groq_answer |-> PyText(""), timestamp |-> Absent],
     [groq_answer |-> PyText("Duty sustains order."),
      timestamp |-> PyText("2025-01-01T00:00:00")]}

Payloads(chunkLists) ==
    {MkDict(<<Entry("retrieved_chunks", c), Entry("groq_answer", x.groq_answer),
              Entry("timestamp", x.timestamp)>>) : c \in chunkLists, x \in Extras}

\* The bodies of the retrieval service: the lists and the odd values with each of
\* the extras, and each rare chunk alone in a body of its own
RagPayloads ==
    Payloads(RagChunkLists \cup OddChunkLists)
    \cup {PyDict(<<Entry("retrieved_chunks", PyList(<<c>>))>>) : c \in RareChunks}

HttpRaises == {[kind |-> "raise", exc |-> e] : e \in {"Timeout", "ConnectionError"}}
HttpResponse(code, json) == [kind |-> "response", status_code |-> code, json |-> json]

\* What session.post can do, over the bodies in P
HttpOutcomes(P) ==
    HttpRaises
    \cup {HttpResponse(200, Ok(p)) : p \in P \cup {PyNone, PyList(<<>>)}}
    \cup {HttpResponse(200, Raise("JSONDecodeError"))}
    \cup {HttpResponse(code, j) :
            code \in {201, 404, 500},
            j \in {Raise("JSONDecodeError"),
                   Ok(PyDict(<<Entry("retrieved_chunks", PyList(<<ChunkA>>))>>))}}

RagHttp == HttpOutcomes(RagPayloads)

\* The queries: the empty one, two of the scenario, and one that names a keyword
\* with the Kelvin sign (U+212A) for its k, which str.lower() turns into k
KelvinSkill == <<115, 8490, 105, 108, 108>>
Queries == {<<>>, Str("dharma"), Str("What's karma?"), KelvinSkill}
RagQueries == {Str("dharma"), Str("What's karma?")}
TopKs == {5}
ApiUrls == {PyNone, PyText(""), PyText("http://rag.local/query"), PyText("http://rag.test/query")}

\* The longest retrieved_chunks list the retrieval service returns to the agent
MaxAgentChunks == 4

\* The lists of up to MaxAgentChunks chunks, two in which a content is empty and
\* two in which a score is null
AgentChunkLists ==
    {PyList(l) : l \in SeqsUpTo({ChunkA, ChunkLong}, MaxAgentChunks)}
    \cup {PyList(<<ChunkB>>), PyList(<<ChunkA, ChunkB>>)}
    \cup {PyList(<<ChunkScoreNull>>), PyList(<<ChunkA, ChunkScoreNull>>)}
AgentPayloads ==
    {PyDict(<<Entry("retrieved_chunks", c),
              Entry("groq_answer", PyText("Duty sustains order."))>>) : c \in AgentChunkLists}
AgentHttp == HttpOutcomes(AgentPayloads)

\* What session.post can do on the probe query of health_check
HealthHttp ==
    HttpOutcomes({PyDict(<<Entry("retrieved_chunks", c)>>) :
                    c \in {PyList(<<>>), PyList(<<ChunkA>>)}})

\* What groq_client.generate_response can do: raise, or return (response, success)
GroqReturn(response, success) ==
    [kind |-> "return", response |-> response, success |-> PyBool(success)]
GroqOutcomes ==
    {[kind |-> "raise", exc |-> "ConnectionError"],
     GroqReturn(PyText("Dharma means duty; start from an example."), TRUE),
     GroqReturn(PyText(""), TRUE),
     GroqReturn(PyNone, FALSE),
     GroqReturn(PyText("Rate limit exceeded"), FALSE)}

\* What groq_client.health_check can do: raise, or return a dict
GroqHealthOutcomes ==
    {[kind |-> "raise", exc |-> "ConnectionError"],
     [kind |-> "return", value |-> PyDict(<<Entry("available", PyBool(TRUE))>>)],
     [kind |-> "return", value |-> PyDict(<<Entry("available", PyBool(FALSE))>>)],
     [kind |-> "return", value |-> PyDict(<<Entry("status", PyText("healthy"))>>)]}

\* What rl_context.log_action can do: return, or raise
LogOutcomes ==
    {[kind |-> "return"],
     [kind |-> "raise", exc |-> "OSError", message |-> Str("No space left on device")]}

\* The task_id a caller passes, the ids uuid4 makes, and the clock's readings
TaskIds == {PyNone, PyText(""), PyText("task-7")}
Uuids == {Str("6f1c0d1e-uuid-a"), Str("9b2e4c7a-uuid-b")}
Clock == {Str("2025-01-01T00:00:00")}

---------------------------------------------------------------------------
(* What the content service does, and the calls made on VaaniClient *)

VaaniRaise(exc, message) == [kind |-> "raise", exc |-> exc, message |-> Str(message)]
BadJson == [exc |-> "ValueError", message |-> Str("bad json")]

\* What session.post can do on the login call
VaaniLoginOutcomes ==
    {VaaniRaise("Timeout", "timed out"),
     HttpResponse(200, Ok(PyDict(<<Entry("access_token", PyText("tok-1"))>>))),
     HttpResponse(200, Ok(PyDict(<<Entry("access_token", PyText("tok-2"))>>))),
     HttpResponse(200, Ok(PyDict(<<Entry("access_token", PyText(""))>>))),
     HttpResponse(200, Ok(EmptyDict)),
     HttpResponse(200, Ok(PyNone)),
     HttpResponse(200, BadJson),
     HttpResponse(401, Ok(PyDict(<<Entry("detail", PyText("Incorrect username or password"))>>))),
     HttpResponse(500, BadJson)}

\* What session.post can do on content/create
VaaniCreateOutcomes ==
    {VaaniRaise("ConnectionError", "connection refused"),
     HttpResponse(200, Ok(PyDict(<<Entry("content_id", PyText("c-1"))>>))),
     HttpResponse(200, Ok(PyDict(<<Entry("content_id", PyInt(7))>>))),
     HttpResponse(200, Ok(PyDict(<<Entry("content_id", PyText(""))>>))),
     HttpResponse(200, Ok(EmptyDict)),
     HttpResponse(200, Ok(PyList(<<>>))),
     HttpResponse(200, BadJson),
     HttpResponse(401, Ok(PyDict(<<Entry("detail", PyText("Not authenticated"))>>))),
     HttpResponse(500, BadJson)}

\* What session.post / session.get can do on an operation's own endpoint
VaaniEndpointOutcomes ==
    {VaaniRaise("Timeout", "timed out"),
     HttpResponse(200, Ok(PyDict(<<Entry("status", PyText("ok"))>>))),
     HttpResponse(200, Ok(PyList(<<PyText("twitter")>>))),
     HttpResponse(200, Ok(PyDict(<<Entry("error", PyText("quota exceeded"))>>))),
     HttpResponse(200, Ok(PyList(<<PyText("error")>>))),
     HttpResponse(200, Ok(PyText("no error"))),
     HttpResponse(200, Ok(PyNone)),
     HttpResponse(200, BadJson),
     HttpResponse(401, Ok(PyDict(<<Entry("detail", PyText("Not authenticated"))>>))),
     HttpResponse(404, BadJson),
     HttpResponse(500, BadJson)}

VaaniTexts == {<<>>, Str("Om shanti")}

\* The calls: the operation and its arguments
VaaniCalls ==
    {[op |-> "generate_content", text |-> t, platforms |-> p, tone |-> Str("neutral"),
      language |-> Str("en")] : t \in VaaniTexts, p \in {PyNone, PyList(<<PyText("twitter")>>)}}
    \cup {[op |-> "translate_content", text |-> t,
           target_languages |-> PyList(<<PyText("hi"), PyText("sa")>>),
           tone |-> Str("neutral")] :
            t \in VaaniTexts}
    \cup {[op |-> "generate_voice", text |-> t, language |-> l,
           tone |-> Str("devotional"), voice_tag |-> Str("hi_in_female_devotional")] :
            t \in VaaniTexts, l \in {Str("hi"), Str("en")}}
    \cup {[op |-> "generate_audio", text |-> t, language |-> l, voice |-> Str("female")] :
            t \in VaaniTexts, l \in {Str("hi"), Str("en")}}
    \cup {[op |-> "analyze_content_security", text |-> t] : t \in VaaniTexts}
    \cup {[op |-> "detect_language", text |-> t] : t \in VaaniTexts}
    \cup {[op |-> "get_supported_platforms"], [op |-> "get_supported_languages"]}

\* The call c made on the client self, given what the service does on the login,
\* on content/create and on the operation's own endpoint (when they are reached)
VaaniClient_call(self, c, login, create, endpoint, audio_id) ==
    CASE c.op = "generate_content" ->
            VaaniClient_generate_content(self, c.text, c.platforms, c.tone, c.language,
                                         login, create, endpoint)
      [] c.op = "translate_content" ->
            VaaniClient_translate_content(self, c.text, c.target_languages, c.tone,
                                          login, create, endpoint)
      [] c.op = "generate_voice" ->
            VaaniClient_generate_voice(self, c.text, c.language, c.tone, c.voice_tag,
                                       login, create, endpoint)
      [] c.op = "generate_audio" ->
            VaaniClient_generate_audio(self, c.text, c.language, c.voice,
                                       login, create, endpoint, audio_id)
      [] c.op = "analyze_content_security" ->
            VaaniClient_analyze_content_security(self, c.text, login, create, endpoint)
      [] c.op = "detect_language" ->
            VaaniClient_detect_language(self, c.text, login, endpoint)
      [] c.op = "get_supported_platforms" ->
            VaaniClient_get_supported_platforms(self, login, endpoint)
      [] c.op = "get_supported_languages" ->
            VaaniClient_get_supported_languages(self, login, endpoint)

---------------------------------------------------------------------------
(* Calls on the RAG client.  A run draws the arguments and the upstream's answer *)
(* once, and then makes calls with them in any order, any number of times.       *)

NoCall == [op |-> "none"]
NoRequest == [url |-> <<>>]
NoInput == [query |-> <<>>, top_k |-> 0, http |-> [kind |-> "none"]]
NoOutcome == [kind |-> "none"]
NoReturn == [pending |-> TRUE]

NoVaaniInput ==
    [login |-> NoOutcome, create |-> NoOutcome, endpoint |-> NoOutcome, audio_id |-> <<>>]

\* No VaaniClient has been constructed
NoVaani ==
    /\ vaani = VaaniClient_fields
    /\ vaani_before = VaaniClient_fields
    /\ vaani_pc = "none"
    /\ vaani_call = NoCall
    /\ vaani_in = NoVaaniInput
    /\ vaani_sent = <<>>
    /\ vaani_result = NoReturn
    /\ callers = <<>>

\* No call is being served and nothing has been returned
AgentIdle ==
    /\ pc = "idle"
    /\ call = NoCall
    /\ task_id = PyNone
    /\ knowledge_context = <<>>
    /\ sources = <<>>
    /\ enhanced_response = PyNone
    /\ groq_used = FALSE
    /\ groq_in = NoOutcome
    /\ log_in = NoOutcome
    /\ events = <<>>
    /\ returned = NoReturn

RagInit ==
    /\ rag_client \in {RAGClient_init(u) : u \in ApiUrls}
    /\ rag_in \in [query : RagQueries, top_k : TopKs, http : RagHttp]
    /\ rag_call = NoCall
    /\ rag_request = NoRequest
    /\ rag_transformed = <<>>
    /\ AgentIdle
    /\ NoVaani

RagQueryCall ==
    /\ rag_call' = [op |-> "query",
                    result |-> RAGClient_query(rag_client, rag_in.query, rag_in.top_k,
                                               rag_in.http)]
    /\ rag_request' = RAGClient_request(rag_client, rag_in.query, rag_in.top_k)
    /\ UNCHANGED <<rag_client, rag_in, rag_transformed>>

\* RagTransformCall with a _transform_response that takes the query from the request
\* the client sent last, when it has sent one, instead of from its argument
RagTransformCall_last_query ==
    /\ rag_in.http.kind = "response"
    /\ ~Raised(rag_in.http.json)
    /\ rag_call' = [op |-> "_transform_response",
                    result |-> RAGClient_transform_response(
                                   rag_client, rag_in.http.json.ok,
                                   IF rag_request = NoRequest THEN rag_in.query
                                   ELSE Get(rag_request.json, "query").s)]
    /\ rag_transformed' = IF rag_transformed = <<>> THEN <<rag_call'.result>>
                          ELSE <<rag_transformed[1], rag_call'.result>>
    /\ UNCHANGED <<rag_client, rag_in, rag_request>>

\* _transform_response, called with the body the upstream sent; what it returns is
\* kept beside what its first call of the run returned
RagTransformCall ==
    /\ rag_in.http.kind = "response"
    /\ ~Raised(rag_in.http.json)
    /\ rag_call' = [op |-> "_transform_response",
                    result |-> RAGClient_transform_response(rag_client, rag_in.http.json.ok,
                                                            rag_in.query)]
    /\ rag_transformed' = IF rag_transformed = <<>> THEN <<rag_call'.result>>
                          ELSE <<rag_transformed[1], rag_call'.result>>
    /\ UNCHANGED <<rag_client, rag_in, rag_request>>

RagHealthCall ==
    /\ rag_call' = [op |-> "health_check",
                    result |-> RAGClient_health_check(rag_client, rag_in.http)]
    /\ rag_request' = RAGClient_request(rag_client, Str("test"), 1)
    /\ UNCHANGED <<rag_client, rag_in, rag_transformed>>

RagNext == RagQueryCall \/ RagTransformCall \/ RagHealthCall

---------------------------------------------------------------------------
(* Calls on the agent.  process_query is followed step by step, one step for each *)
(* call it makes to the outside; health_check is one step.                        *)

\* The agent after construction, with the retrieval client of the module
AgentInit ==
    /\ rag_client = RAGClient_init(PyNone)
    /\ rag_in = NoInput
    /\ rag_call = NoCall
    /\ rag_request = NoRequest
    /\ rag_transformed = <<>>
    /\ AgentIdle
    /\ NoVaani

\* process_query is called: line 121 settles the correlation id
StartQuery ==
    /\ pc = "idle"
    /\ \E q \in Queries, supplied \in TaskIds, fresh \in Uuids :
        /\ call' = [op |-> "process_query", query |-> q, task_id |-> supplied]
        /\ task_id' = IF Truthy(supplied) THEN supplied ELSE PyStr(fresh)
    /\ pc' = "retrieve"
    /\ knowledge_context' = <<>>
    /\ sources' = <<>>
    /\ enhanced_response' = PyNone
    /\ groq_used' = FALSE
    /\ groq_in' = NoOutcome
    /\ log_in' = NoOutcome
    /\ events' = <<>>
    /\ returned' = NoReturn
    /\ rag_in' = NoInput
    /\ rag_call' = NoCall
    /\ rag_request' = NoRequest
    /\ UNCHANGED <<rag_client, rag_transformed>>

\* Step 1 with a second attempt after a failed retrieval call
RetrieveStep_retrying ==
    /\ pc = "retrieve"
    /\ \E http \in AgentHttp :
        LET enhanced_query == Str("Educational learning guidance: ") \o call.query
            got == EduMentorAgent_get_knowledge_context(EduMentorAgent_init, rag_client,
                                                        call.query, http)
        IN  /\ rag_in' = [query |-> enhanced_query, top_k |-> 5, http |-> http]
            /\ rag_call' = [op |-> "query",
                            result |-> RAGClient_query(rag_client, enhanced_query, 5, http)]
            /\ rag_request' = RAGClient_request(rag_client, enhanced_query, 5)
            /\ knowledge_context' = got.context_text
            /\ sources' = got.sources
            /\ pc' = IF http.kind = "raise" /\ events = <<>> THEN "retrieve" ELSE "complete"
    /\ events' = Append(events, [kind |-> "rag_request"])
    /\ UNCHANGED <<rag_client, rag_transformed, call, task_id, enhanced_response, groq_used,
                   groq_in, log_in,
                   returned>>

\* Step 1, line 127: _get_knowledge_context and the retrieval call it makes
RetrieveStep ==
    /\ pc = "retrieve"
    /\ \E http \in AgentHttp :
        LET enhanced_query == Str("Educational learning guidance: ") \o call.query
            got == EduMentorAgent_get_knowledge_context(EduMentorAgent_init, rag_client,
                                                        call.query, http)
        IN  /\ rag_in' = [query |-> enhanced_query, top_k |-> 5, http |-> http]
            /\ rag_call' = [op |-> "query",
                            result |-> RAGClient_query(rag_client, enhanced_query, 5, http)]
            /\ rag_request' = RAGClient_request(rag_client, enhanced_query, 5)
            /\ knowledge_context' = got.context_text
            /\ sources' = got.sources
    /\ events' = Append(events, [kind |-> "rag_request"])
    /\ pc' = "complete"
    /\ UNCHANGED <<rag_client, rag_transformed, call, task_id, enhanced_response, groq_used,
                   groq_in, log_in,
                   returned>>

\* Step 2 taking the flag from what the completion service reported
CompleteStep_flag_as_reported ==
    /\ pc = "complete"
    /\ \E groq \in GroqOutcomes :
        LET got == EduMentorAgent_enhance_with_groq(EduMentorAgent_init, call.query,
                                                    knowledge_context, groq)
        IN  /\ groq_in' = groq
            /\ enhanced_response' = got.text
            /\ groq_used' = (groq.kind = "return" /\ Truthy(groq.success))
    /\ events' = Append(events, [kind |-> "groq_request",
                                 prompt |-> EnhancementPrompt(call.query, knowledge_context),
                                 max_tokens |-> 1200,
                                 temperature |-> PyFloat(7, 1)])
    /\ pc' = "log"
    /\ UNCHANGED <<rag_vars, call, task_id, knowledge_context, sources, log_in, returned>>

\* Step 2, line 130: _enhance_with_groq and the completion call it makes
CompleteStep ==
    /\ pc = "complete"
    /\ \E groq \in GroqOutcomes :
        LET got == EduMentorAgent_enhance_with_groq(EduMentorAgent_init, call.query,
                                                    knowledge_context, groq)
        IN  /\ groq_in' = groq
            /\ enhanced_response' = got.text
            /\ groq_used' = got.used
    /\ events' = Append(events, [kind |-> "groq_request",
                                 prompt |-> EnhancementPrompt(call.query, knowledge_context),
                                 max_tokens |-> 1200,
                                 temperature |-> PyFloat(7, 1)])
    /\ pc' = "log"
    /\ UNCHANGED <<rag_vars, call, task_id, knowledge_context, sources, log_in, returned>>

\* Step 3 left out: no record is handed to the sink
LogStep_unrecorded ==
    /\ pc = "log"
    /\ pc' = "assemble"
    /\ UNCHANGED <<rag_vars, call, task_id, knowledge_context, sources, enhanced_response,
                   groq_used, groq_in, log_in, events, returned>>

\* Step 3, lines 133-145: the action-log record is handed to the sink.  The call is
\* inside the try block of line 123, so a raise of the sink is the except branch.
LogStep ==
    /\ pc = "log"
    /\ \E sink \in LogOutcomes, now \in Clock :
        /\ log_in' = sink
        /\ events' = Append(events,
                [kind |-> "log_action",
                 record |-> ActionLogRecord(EduMentorAgent_init, call.query, task_id,
                                            knowledge_context, sources, groq_used)])
        /\ IF sink.kind = "raise"
           THEN /\ returned' = EduMentorAgent_process_query_except(
                                    EduMentorAgent_init, call.query, task_id, sink.message, now)
                /\ pc' = "done"
           ELSE /\ returned' = returned
                /\ pc' = "assemble"
    /\ UNCHANGED <<rag_vars, call, task_id, knowledge_context, sources, enhanced_response,
                   groq_used, groq_in>>

\* Step 4, lines 148-173: the envelope is assembled and returned
ReturnStep ==
    /\ pc = "assemble"
    /\ \E now \in Clock :
        returned' = Ok(SuccessEnvelope(EduMentorAgent_init, call.query, task_id,
                                       knowledge_context, sources, enhanced_response,
                                       groq_used, now))
    /\ pc' = "done"
    /\ UNCHANGED <<rag_vars, call, task_id, knowledge_context, sources, enhanced_response,
                   groq_used, groq_in, log_in, events>>

\* health_check is called, lines 194-224
HealthCheck ==
    /\ pc = "idle"
    /\ \E http \in HealthHttp, groq1 \in GroqHealthOutcomes, groq2 \in GroqHealthOutcomes,
          now \in Clock :
        /\ rag_in' = [query |-> Str("test"), top_k |-> 1, http |-> http]
        /\ rag_call' = [op |-> "health_check",
                        result |-> RAGClient_health_check(rag_client, http)]
        /\ groq_in' = [kind |-> "health", first |-> groq1,
                       second |-> IF groq1.kind = "raise" THEN NoOutcome ELSE groq2]
        /\ returned' = EduMentorAgent_health_check(EduMentorAgent_init, rag_client, http,
                                                   groq1, groq2, now)
    /\ rag_request' = RAGClient_request(rag_client, Str("test"), 1)
    /\ call' = [op |-> "health_check"]
    /\ pc' = "done"
    /\ task_id' = PyNone
    /\ knowledge_context' = <<>>
    /\ sources' = <<>>
    /\ enhanced_response' = PyNone
    /\ groq_used' = FALSE
    /\ log_in' = NoOutcome
    /\ events' = <<[kind |-> "rag_request"]>>
    /\ UNCHANGED <<rag_client, rag_transformed>>

\* The caller has the result; the locals of the call are gone, and the agent (which
\* keeps nothing from one call to the next) can be called again.
TakeResult ==
    /\ pc = "done"
    /\ pc' = "idle"
    /\ call' = NoCall
    /\ task_id' = PyNone
    /\ knowledge_context' = <<>>
    /\ sources' = <<>>
    /\ enhanced_response' = PyNone
    /\ groq_used' = FALSE
    /\ groq_in' = NoOutcome
    /\ log_in' = NoOutcome
    /\ events' = <<>>
    /\ returned' = NoReturn
    /\ rag_in' = NoInput
    /\ rag_call' = NoCall
    /\ rag_request' = NoRequest
    /\ UNCHANGED <<rag_client, rag_transformed>>

AgentNext ==
    \/ StartQuery
    \/ RetrieveStep
    \/ CompleteStep
    \/ LogStep
    \/ ReturnStep
    \/ HealthCheck
    \/ TakeResult

---------------------------------------------------------------------------
(* Calls on VaaniClient, one caller at a time.  Each operation is one step: the   *)
(* caller waits for it.                                                           *)

\* The retrieval client and the agent stand by
OthersIdle ==
    /\ rag_client = RAGClient_init(PyNone)
    /\ rag_in = NoInput
    /\ rag_call = NoCall
    /\ rag_request = NoRequest
    /\ rag_transformed = <<>>
    /\ AgentIdle

\* VaaniClient(): the constructor has outcome
VaaniInit ==
    /\ \E login \in VaaniLoginOutcomes :
        /\ vaani = VaaniClient_init(login).self
        /\ vaani_sent = VaaniClient_init(login).sent
        /\ vaani_in = [NoVaaniInput EXCEPT !.login = login]
    /\ vaani_before = VaaniClient_fields
    /\ vaani_pc = "done"
    /\ vaani_call = [op |-> "__init__"]
    /\ vaani_result = Ok(PyNone)
    /\ callers = <<>>
    /\ OthersIdle

ContentOperations ==
    {"generate_content", "translate_content", "generate_voice", "analyze_content_security"}

\* The operations that send content/create ahead of their endpoint; detect_language
\* sends its endpoint request only
CreatingOperations == ContentOperations \cup {"generate_audio"}

\* The call c is made on the client and returns what the operation returned.
\* What the service does is drawn for the requests the operation can reach, and
\* uuid4's value for generate_audio.
VaaniOperation(c, login, create, endpoint, audio_id, outcome) ==
    /\ vaani_call' = c
    /\ vaani' = outcome.self
    /\ vaani_sent' = outcome.sent
    /\ vaani_result' = outcome.result
    /\ vaani_in' =
         [login |-> IF Truthy(vaani.token) THEN NoOutcome ELSE login,
          create |-> IF c.op \in CreatingOperations THEN create ELSE NoOutcome,
          endpoint |-> IF c.op \in CreatingOperations /\ ~Truthy(CreatedContentId(create))
                       THEN NoOutcome ELSE endpoint,
          audio_id |-> audio_id]
    /\ vaani_before' = vaani
    /\ vaani_pc' = "done"
    /\ UNCHANGED callers

CallsOf(op) == {c \in VaaniCalls : c.op = op}

GenerateContent ==
    /\ vaani_pc = "idle"
    /\ \E c \in CallsOf("generate_content"), login \in VaaniLoginOutcomes,
          create \in VaaniCreateOutcomes, endpoint \in VaaniEndpointOutcomes :
           VaaniOperation(c, login, create, endpoint, <<>>,
                          VaaniClient_generate_content(vaani, c.text, c.platforms, c.tone,
                                                       c.language, login, create, endpoint))

TranslateContent ==
    /\ vaani_pc = "idle"
    /\ \E c \in CallsOf("translate_content"), login \in VaaniLoginOutcomes,
          create \in VaaniCreateOutcomes, endpoint \in VaaniEndpointOutcomes :
           VaaniOperation(c, login, create, endpoint, <<>>,
                          VaaniClient_translate_content(vaani, c.text, c.target_languages,
                                                        c.tone, login, create, endpoint))

GenerateVoice ==
    /\ vaani_pc = "idle"
    /\ \E c \in CallsOf("generate_voice"), login \in VaaniLoginOutcomes,
          create \in VaaniCreateOutcomes, endpoint \in VaaniEndpointOutcomes :
           VaaniOperation(c, login, create, endpoint, <<>>,
                          VaaniClient_generate_voice(vaani, c.text, c.language, c.tone,
                                                     c.voice_tag, login, create, endpoint))

GenerateAudio ==
    /\ vaani_pc = "idle"
    /\ \E c \in CallsOf("generate_audio"), login \in VaaniLoginOutcomes,
          create \in VaaniCreateOutcomes, endpoint \in VaaniEndpointOutcomes,
          audio_id \in Uuids :
           VaaniOperation(c, login, create, endpoint, audio_id,
                          VaaniClient_generate_audio(vaani, c.text, c.language, c.voice,
                                                     login, create, endpoint, audio_id))

AnalyzeContentSecurity ==
    /\ vaani_pc = "idle"
    /\ \E c \in CallsOf("analyze_content_security"), login \in VaaniLoginOutcomes,
          create \in VaaniCreateOutcomes, endpoint \in VaaniEndpointOutcomes :
           VaaniOperation(c, login, create, endpoint, <<>>,
                          VaaniClient_analyze_content_security(vaani, c.text, login, create,
                                                               endpoint))

DetectLanguage ==
    /\ vaani_pc = "idle"
    /\ \E c \in CallsOf("detect_language"), login \in VaaniLoginOutcomes,
          endpoint \in VaaniEndpointOutcomes :
           VaaniOperation(c, login, NoOutcome, endpoint, <<>>,
                          VaaniClient_detect_language(vaani, c.text, login, endpoint))

GetSupportedPlatforms ==
    /\ vaani_pc = "idle"
    /\ \E c \in CallsOf("get_supported_platforms"), login \in VaaniLoginOutcomes,
          endpoint \in VaaniEndpointOutcomes :
           VaaniOperation(c, login, NoOutcome, endpoint, <<>>,
                          VaaniClient_get_supported_platforms(vaani, login, endpoint))

GetSupportedLanguages ==
    /\ vaani_pc = "idle"
    /\ \E c \in CallsOf("get_supported_languages"), login \in VaaniLoginOutcomes,
          endpoint \in VaaniEndpointOutcomes :
           VaaniOperation(c, login, NoOutcome, endpoint, <<>>,
                          VaaniClient_get_supported_languages(vaani, login, endpoint))

\* The caller has the result; the client keeps its token and its session headers
VaaniTakeResult ==
    /\ vaani_pc = "done"
    /\ vaani_pc' = "idle"
    /\ vaani_call' = NoCall
    /\ vaani_in' = NoVaaniInput
    /\ vaani_sent' = <<>>
    /\ vaani_result' = NoReturn
    /\ vaani_before' = vaani
    /\ UNCHANGED <<vaani, callers>>

VaaniNext ==
    \/ GenerateContent
    \/ TranslateContent
    \/ GenerateVoice
    \/ GenerateAudio
    \/ AnalyzeContentSecurity
    \/ DetectLanguage
    \/ GetSupportedPlatforms
    \/ GetSupportedLanguages
    \/ VaaniTakeResult

---------------------------------------------------------------------------
(* Concurrent callers of one VaaniClient.  Each caller runs an operation in its   *)
(* own thread; _ensure_authenticated and _authenticate take no lock, so a thread  *)
(* can be preempted between any two of their reads and writes of self.token and  *)
(* of the session headers.                                                        *)

\* The number of concurrent callers
NumCallers == 2

Callers == 1..NumCallers

\* The operations the callers run: one that sends content/create ahead of its own
\* request, and one that sends its own request only
RaceOperations == {"generate_content", "detect_language"}

\* The path of the operation's own endpoint
OwnPath(op) ==
    IF op = "generate_content" THEN Str("/api/v1/agents/generate-content")
    ELSE Str("/api/v1/multilingual/detect-language")

\* What session.post can do on a caller's login call
RaceLoginOutcomes ==
    {VaaniRaise("Timeout", "timed out"),
     HttpResponse(200, Ok(PyDict(<<Entry("access_token", PyText("tok-1"))>>))),
     HttpResponse(200, Ok(PyDict(<<Entry("access_token", PyText("tok-2"))>>))),
     HttpResponse(500, BadJson)}

\* What session.post can do on a caller's content/create
RaceCreateOutcomes ==
    {HttpResponse(200, Ok(PyDict(<<Entry("content_id", PyText("c-1"))>>))),
     HttpResponse(500, BadJson)}

\* The login response takes the branch of lines 39-45
LoginAccepted(login) ==
    /\ login.kind = "response"
    /\ login.status_code = 200
    /\ ~Raised(login.json)
    /\ IsDict(login.json.ok)

\* A client whose constructor obtained no token, and callers about to call it
VaaniRaceInit ==
    /\ vaani \in {VaaniClient_init(l).self : l \in {x \in VaaniLoginOutcomes : ~LoginAccepted(x)}}
    /\ callers \in [Callers ->
                      {[pc |-> "start", op |-> o, login |-> NoOutcome, logins |-> 0,
                        data |-> PyNone, bearer |-> <<>>, reading |-> FALSE, keys |-> {},
                        sent |-> <<>>] :
                            o \in RaceOperations}]
    /\ vaani_before = vaani
    /\ vaani_pc = "shared"
    /\ vaani_call = NoCall
    /\ vaani_in = NoVaaniInput
    /\ vaani_sent = <<>>
    /\ vaani_result = NoReturn
    /\ OthersIdle

\* session.post starts preparing the request: merging the session headers into it
\* walks the OrderedDict that holds them, which is not atomic.  The caller has
\* started the walk over the keys the session holds now.
ReadHeaders(t) ==
    /\ callers[t].pc \in {"send_login", "send_create", "send_endpoint"}
    /\ ~callers[t].reading
    /\ callers' = [callers EXCEPT ![t].reading = TRUE, ![t].keys = DOMAIN vaani.headers]
    /\ UNCHANGED vaani

\* Another caller's headers.update has put a new key into the session headers since
\* the walk began: the walk raises RuntimeError("OrderedDict mutated during
\* iteration") inside session.post, before anything is sent.  Overwriting a header
\* the session already holds does not disturb the walk, and no header is ever
\* removed.
Mutated(t) == DOMAIN vaani.headers # callers[t].keys

\* The walk ends.  When it was disturbed session.post raises, nothing is sent and the
\* caller goes on in the except branch of its try; otherwise the request goes out
\* with the session headers and the caller waits for the answer.
Sending(t, path, waiting, failed) ==
    IF Mutated(t)
    THEN [callers EXCEPT ![t].reading = FALSE, ![t].keys = {}, ![t].pc = failed]
    ELSE [callers EXCEPT ![t].reading = FALSE, ![t].keys = {},
                         ![t].sent = Append(@, [path |-> path, headers |-> vaani.headers]),
                         ![t].pc = waiting]

\* Where the caller goes on when _ensure_authenticated has returned
OperationStart(t) ==
    IF callers[t].op = "generate_content" THEN "send_create" ELSE "send_endpoint"

\* Line 56: the caller reads self.token
Ensure(t) ==
    /\ callers[t].pc = "start"
    /\ callers' = [callers EXCEPT ![t].pc =
                        IF ~Truthy(vaani.token) THEN "send_login" ELSE OperationStart(t)]
    /\ UNCHANGED vaani

\* Line 36: the caller's login request goes out, or session.post raises with no
\* request sent and line 52 is next
SendLogin(t) ==
    /\ callers[t].pc = "send_login"
    /\ callers[t].reading
    /\ callers' = [Sending(t, LoginPath, "await_login", "clear_token") EXCEPT
                        ![t].logins = IF Mutated(t) THEN @ ELSE @ + 1,
                        ![t].login = IF Mutated(t)
                                     THEN VaaniRaise("RuntimeError",
                                                     "OrderedDict mutated during iteration")
                                     ELSE @]
    /\ UNCHANGED vaani

\* Lines 36-39: the login call returns or raises, and its response selects the branch
ReceiveLogin(t) ==
    /\ callers[t].pc = "await_login"
    /\ \E login \in RaceLoginOutcomes :
        callers' = [callers EXCEPT
                        ![t].login = login,
                        ![t].data = IF LoginAccepted(login)
                                    THEN DictGet(login.json.ok, Str("access_token"), PyNone)
                                    ELSE PyNone,
                        ![t].pc = IF LoginAccepted(login) THEN "set_token" ELSE "clear_token"]
    /\ UNCHANGED vaani

\* Line 40: self.token = data.get("access_token")
SetToken(t) ==
    /\ callers[t].pc = "set_token"
    /\ vaani' = [vaani EXCEPT !.token = callers[t].data]
    /\ callers' = [callers EXCEPT ![t].pc = "build_headers"]

\* Lines 42-43: the argument of headers.update is built, the caller reading
\* self.token as it is now into the f-string
BuildHeaders(t) ==
    /\ callers[t].pc = "build_headers"
    /\ callers' = [callers EXCEPT ![t].pc = "update_authorization",
                                  ![t].bearer = Str("Bearer ") \o Format(vaani.token)]
    /\ UNCHANGED vaani

\* Line 41: headers.update writes the keys of its argument one after the other,
\* "Authorization" first
UpdateAuthorization(t) ==
    /\ callers[t].pc = "update_authorization"
    /\ vaani' = WithHeader(vaani, "Authorization", callers[t].bearer)
    /\ callers' = [callers EXCEPT ![t].pc = "update_content_type"]

UpdateContentType(t) ==
    /\ callers[t].pc = "update_content_type"
    /\ vaani' = WithHeader(vaani, "Content-Type", Str("application/json"))
    /\ callers' = [callers EXCEPT ![t].pc = OperationStart(t)]

\* Lines 48 and 52: self.token = None
ClearToken(t) ==
    /\ callers[t].pc = "clear_token"
    /\ vaani' = WithoutToken(vaani)
    /\ callers' = [callers EXCEPT ![t].pc = OperationStart(t)]

\* Line 71: the content/create request of the operation goes out, or session.post
\* raises with no request sent: _create_content_first returns None (lines 82-84) and
\* the operation returns {"error": "Failed to create content"} (lines 94-95)
SendCreate(t) ==
    /\ callers[t].pc = "send_create"
    /\ callers[t].reading
    /\ callers' = Sending(t, CreatePath, "await_create", "finished")
    /\ UNCHANGED vaani

\* Lines 71-84, 94-95: content/create is answered; without a content_id the operation
\* returns {"error": "Failed to create content"}
ReceiveCreate(t) ==
    /\ callers[t].pc = "await_create"
    /\ \E create \in RaceCreateOutcomes :
        callers' = [callers EXCEPT ![t].pc = IF Truthy(CreatedContentId(create))
                                              THEN "send_endpoint" ELSE "finished"]
    /\ UNCHANGED vaani

\* Lines 106 and 223: the request to the operation's own endpoint goes out, or
\* session.post raises with no request sent and the operation returns
\* {"error": str(e)} from its except branch
SendEndpoint(t) ==
    /\ callers[t].pc = "send_endpoint"
    /\ callers[t].reading
    /\ callers' = Sending(t, OwnPath(callers[t].op), "await_endpoint", "finished")
    /\ UNCHANGED vaani

\* The endpoint is answered and the operation returns
ReceiveEndpoint(t) ==
    /\ callers[t].pc = "await_endpoint"
    /\ callers' = [callers EXCEPT ![t].pc = "finished"]
    /\ UNCHANGED vaani

CallerEnsure == \E t \in Callers : Ensure(t)
CallerReadHeaders == \E t \in Callers : ReadHeaders(t)
CallerSendLogin == \E t \in Callers : SendLogin(t)
CallerReceiveLogin == \E t \in Callers : ReceiveLogin(t)
CallerSetToken == \E t \in Callers : SetToken(t)
CallerBuildHeaders == \E t \in Callers : BuildHeaders(t)
CallerUpdateAuthorization == \E t \in Callers : UpdateAuthorization(t)
CallerUpdateContentType == \E t \in Callers : UpdateContentType(t)
CallerClearToken == \E t \in Callers : ClearToken(t)
CallerSendCreate == \E t \in Callers : SendCreate(t)
CallerReceiveCreate == \E t \in Callers : ReceiveCreate(t)
CallerSendEndpoint == \E t \in Callers : SendEndpoint(t)
CallerReceiveEndpoint == \E t \in Callers : ReceiveEndpoint(t)

VaaniRaceNext ==
    \/ CallerEnsure
    \/ CallerReadHeaders
    \/ CallerSendLogin
    \/ CallerReceiveLogin
    \/ CallerSetToken
    \/ CallerBuildHeaders
    \/ CallerUpdateAuthorization
    \/ CallerUpdateContentType
    \/ CallerClearToken
    \/ CallerSendCreate
    \/ CallerReceiveCreate
    \/ CallerSendEndpoint
    \/ CallerReceiveEndpoint

vars == <<rag_vars, agent_vars, vaani_vars>>

SpecRag == RagInit /\ [][RagNext /\ UNCHANGED <<agent_vars, vaani_vars>>]_vars

SpecAgent == AgentInit /\ [][AgentNext /\ UNCHANGED vaani_vars]_vars

SpecVaani == VaaniInit /\ [][VaaniNext /\ UNCHANGED <<rag_vars, agent_vars>>]_vars

SpecVaaniRace ==
    VaaniRaceInit
    /\ [][VaaniRaceNext /\ UNCHANGED <<rag_vars, agent_vars, vaani_before, vaani_pc,
                                        vaani_call, vaani_in, vaani_sent, vaani_result>>]_vars

---------------------------------------------------------------------------
(* Properties of the RAG client *)

\* The retrieval call failed: it timed out or raised, or the status is not 200
HttpFailed(http) ==
    http.kind = "raise" \/ (http.kind = "response" /\ http.status_code # 200)

QueryReturned == rag_call.op = "query"
TransformReturned == rag_call.op = "_transform_response"

\* C7: whenever the retrieval call times out, raises or returns a status other than
\* 200, query returns, without raising, the fallback result: status 503, exactly one
\* fragment with source "fallback:error" and score 0.1 whose content embeds the
\* literal query, tags {"fallback", "error"}, and total_results = 1.
C7_FailedRetrievalGivesFallback ==
    (QueryReturned /\ HttpFailed(rag_in.http)) =>
        /\ ~Raised(rag_call.result)
        /\ LET r == rag_call.result.ok
           IN  /\ Get(r, "status") = PyInt(503)
               /\ Get(r, "response").t = "list"
               /\ Len(Get(r, "response").l) = 1
               /\ Get(Get(r, "response").l[1], "source") = PyText("fallback:error")
               /\ Get(Get(r, "response").l[1], "score") = PyFloat(1, 1)
               /\ Contains(Get(Get(r, "response").l[1], "content").s, rag_in.query)
               /\ LET tags == Get(Get(r, "metadata"), "tags").l
                  IN  {tags[i] : i \in 1..Len(tags)} = {PyText("fallback"), PyText("error")}
               /\ Get(r, "total_results") = PyInt(1)

C7_Witness ==
    /\ QueryReturned
    /\ rag_in.http = [kind |-> "raise", exc |-> "Timeout"]
    /\ rag_in.query = Str("What's karma?")
    /\ ~Raised(rag_call.result)
    /\ Get(rag_call.result.ok, "status") = PyInt(503)

\* A chunk of the upstream's schema: content and file are strings, score a number,
\* index an integer
IsWellFormedChunk(c) ==
    /\ IsDict(c)
    /\ {DictKeys(c)[i] : i \in 1..Len(DictKeys(c))}
            = {Str("content"), Str("file"), Str("score"), Str("index")}
    /\ Get(c, "content").t = "str"
    /\ Get(c, "file").t = "str"
    /\ Get(c, "score").t \in {"int", "float"}
    /\ Get(c, "index").t = "int"

IsWellFormedPayload(p) ==
    /\ IsDict(p)
    /\ HasKey(p, Str("retrieved_chunks"))
    /\ Get(p, "retrieved_chunks").t = "list"
    /\ \A i \in 1..Len(Get(p, "retrieved_chunks").l) :
            IsWellFormedChunk(Get(p, "retrieved_chunks").l[i])
    /\ HasKey(p, Str("groq_answer")) => Get(p, "groq_answer").t = "str"

\* The number a score denotes, as a float
AsFloat(v) == IF v.t = "int" THEN FloatOfInt(v).ok ELSE v

\* The result r is the normal form of the well-formed payload p
IsNormalFormOf(r, p) ==
    LET chunks == Get(p, "retrieved_chunks").l
        answer == IF HasKey(p, Str("groq_answer")) THEN Get(p, "groq_answer").s ELSE <<>>
    IN  /\ Get(r, "response").t = "list"
        /\ Len(Get(r, "response").l) = Len(chunks)
        /\ \A i \in 1..Len(chunks) :
            LET f == Get(r, "response").l[i]
                c == chunks[i]
            IN  /\ Get(f, "content") = Get(c, "content")
                /\ Get(f, "source") = PyStr(Str("rag:") \o Get(c, "file").s)
                /\ Get(f, "document_id") =
                        PyStr(Get(c, "file").s \o Str("_") \o IntToStr(Get(c, "index")))
                /\ Get(f, "score") = AsFloat(Get(c, "score"))
        /\ {Get(Get(r, "metadata"), "tags").l[i] : i \in 1..Len(Get(Get(r, "metadata"), "tags").l)}
             = {PyText("semantic_search"), PyText("rag_api"), PyText("groq_enhanced")}
        /\ Get(Get(r, "metadata"), "has_groq_answer") = PyBool(answer # <<>>)

\* C8: for every well-formed upstream payload with n chunks, normalization yields
\* exactly n fragments in the upstream's order, fragment i with source "rag:" + file_i,
\* document_id file_i + "_" + index_i and score score_i; the tags are always
\* {"semantic_search", "rag_api", "groq_enhanced"}, and has_groq_answer is true
\* exactly when groq_answer is non-empty.  (Checked on _transform_response called
\* directly and on a query whose retrieval call returned 200.)
C8_NormalizationKeepsChunks ==
    /\ (TransformReturned /\ IsWellFormedPayload(rag_in.http.json.ok)) =>
            /\ ~Raised(rag_call.result)
            /\ IsNormalFormOf(rag_call.result.ok, rag_in.http.json.ok)
    /\ (/\ QueryReturned
        /\ ~HttpFailed(rag_in.http)
        /\ ~Raised(rag_in.http.json)
        /\ IsWellFormedPayload(rag_in.http.json.ok)) =>
            /\ ~Raised(rag_call.result)
            /\ Get(rag_call.result.ok, "status") = PyInt(200)
            /\ IsNormalFormOf(rag_call.result.ok, rag_in.http.json.ok)

C8_Witness ==
    /\ TransformReturned
    /\ IsWellFormedPayload(rag_in.http.json.ok)
    /\ Get(rag_in.http.json.ok, "retrieved_chunks") = PyList(<<ChunkB, ChunkA>>)
    /\ ~Raised(rag_call.result)
    /\ Get(Get(rag_call.result.ok, "response").l[2], "document_id") = PyText("veda1.txt_0")
    /\ Get(Get(rag_call.result.ok, "response").l[2], "score") = PyFloat(9, 1)

\* C9: every result query returns, on the success path and on every failure path,
\* has a list in "response" (the empty list for no matches), and total_results is
\* the length of that list.
C9_FragmentsAlwaysPresent ==
    QueryReturned =>
        /\ ~Raised(rag_call.result)
        /\ LET r == rag_call.result.ok
           IN  /\ HasKey(r, Str("response"))
               /\ Get(r, "response").t = "list"
               /\ Get(r, "total_results") = PyInt(Len(Get(r, "response").l))
               /\ Get(Get(r, "metadata"), "total_results") = PyInt(Len(Get(r, "response").l))

C9_Witness ==
    /\ QueryReturned
    /\ ~HttpFailed(rag_in.http)
    /\ ~Raised(rag_call.result)
    /\ Get(rag_call.result.ok, "status") = PyInt(200)
    /\ Get(rag_call.result.ok, "response") = PyList(<<>>)
    /\ Get(rag_call.result.ok, "total_results") = PyInt(0)

\* The score of chunk c is absent, null, or text that is no number
ScoreUnusable(c) ==
    \/ ~HasKey(c, Str("score"))
    \/ Get(c, "score").t = "null"
    \/ Get(c, "score").t = "str" /\ Raised(ParseFloat(Get(c, "score").s))

\* C6: for every upstream payload in which an optional field of a chunk is missing
\* or malformed (a score that is absent, null or not a number included),
\* _transform_response does not raise and returns a status-200 result in which that
\* field has its default (score 0.0, source "rag:unknown", content ""), the other
\* chunks being normalized as well.  (Stated for the chunks that are objects, with
\* the defaults of file and content asked for only where the field is missing.)
C6_MalformedFieldsDefaulted ==
    (/\ TransformReturned
     /\ IsDict(rag_in.http.json.ok)
     /\ HasKey(rag_in.http.json.ok, Str("retrieved_chunks"))
     /\ Get(rag_in.http.json.ok, "retrieved_chunks").t = "list"
     /\ \A i \in 1..Len(Get(rag_in.http.json.ok, "retrieved_chunks").l) :
            IsDict(Get(rag_in.http.json.ok, "retrieved_chunks").l[i])) =>
        /\ ~Raised(rag_call.result)
        /\ LET r == rag_call.result.ok
               chunks == Get(rag_in.http.json.ok, "retrieved_chunks").l
           IN  /\ Get(r, "status") = PyInt(200)
               /\ Len(Get(r, "response").l) = Len(chunks)
               /\ \A i \in 1..Len(chunks) :
                    /\ ScoreUnusable(chunks[i]) =>
                            Get(Get(r, "response").l[i], "score") = PyFloat(0, 0)
                    /\ ~HasKey(chunks[i], Str("file")) =>
                            Get(Get(r, "response").l[i], "source") = PyText("rag:unknown")
                    /\ ~HasKey(chunks[i], Str("content")) =>
                            Get(Get(r, "response").l[i], "content") = PyText("")

---------------------------------------------------------------------------
(* Properties of EduMentorAgent *)

ProcessQueryReturned == pc = "done" /\ call.op = "process_query"
HealthCheckReturned == pc = "done" /\ call.op = "health_check"

\* The completion call raised, or returned succeeded = false
CompletionFailed(groq) ==
    groq.kind = "raise" \/ (groq.kind = "return" /\ ~Truthy(groq.success))

\* The completion step ran: its request is among the calls made
CompletionExecuted == \E i \in 1..Len(events) : events[i].kind = "groq_request"

\* The first sentence of the fallback template, around the query
FallbackOpening(query) ==
    Str("As your educational mentor, I'm here to help you understand '") \o query
    \o Str("'.")

\* C1: for every query and every combination of upstream outcomes (retrieval
\* succeeds, fails or raises; completion succeeds, fails or raises; the action-log
\* sink returns or raises) process_query returns, without raising, an envelope whose
\* status is "success" or "error" and whose response text is a non-empty string.
C1_AlwaysAnEnvelope ==
    ProcessQueryReturned =>
        /\ ~Raised(returned)
        /\ IsDict(returned.ok)
        /\ HasKey(returned.ok, Str("status"))
        /\ HasKey(returned.ok, Str("response"))
        /\ Get(returned.ok, "status") \in {PyText("success"), PyText("error")}
        /\ IsStr(Get(returned.ok, "response"))
        /\ Get(returned.ok, "response").s # <<>>

\* process_query has returned after the retrieval call, the completion call and the
\* sink all raised
C1_Witness ==
    /\ ProcessQueryReturned
    /\ rag_in.http.kind = "raise"
    /\ groq_in.kind = "raise"
    /\ log_in.kind = "raise"
    /\ ~Raised(returned)
    /\ Get(returned.ok, "status") = PyText("error")

\* C2: whenever the retrieval call fails (it raises, times out, or returns a status
\* other than 200) process_query returns status "success" with
\* knowledge_context_used false and an empty sources list, and the completion step
\* has been executed.
C2_RetrievalFailureIsNotFatal ==
    (ProcessQueryReturned /\ HttpFailed(rag_in.http)) =>
        /\ ~Raised(returned)
        /\ Get(returned.ok, "status") = PyText("success")
        /\ DictGet(returned.ok, Str("knowledge_context_used"), PyNone) = PyBool(FALSE)
        /\ DictGet(returned.ok, Str("sources"), PyNone) = PyList(<<>>)
        /\ CompletionExecuted

\* C3: whenever the completion call fails (it raises, or returns succeeded = false)
\* the returned envelope has groq_enhanced false and status "success", and its
\* response text is the fallback template, which begins with "As your educational
\* mentor, I'm here to help you understand '<query>'." around the exact query.
C3_CompletionFailureGivesTemplate ==
    (ProcessQueryReturned /\ CompletionFailed(groq_in)) =>
        /\ ~Raised(returned)
        /\ Get(returned.ok, "status") = PyText("success")
        /\ DictGet(returned.ok, Str("groq_enhanced"), PyNone) = PyBool(FALSE)
        /\ Get(returned.ok, "response") =
               PyStr(EduMentorAgent_fallback_response(EduMentorAgent_init, call.query,
                                                      knowledge_context))
        /\ Prefix(Get(returned.ok, "response").s, Len(FallbackOpening(call.query))) =
               FallbackOpening(call.query)

\* C4: whenever the action-log sink raises while the record is emitted,
\* process_query goes on and returns the envelope with status "success" that
\* carries the response text the completion step produced.
C4_LogFailureDoesNotAbort ==
    (ProcessQueryReturned /\ log_in.kind = "raise") =>
        /\ ~Raised(returned)
        /\ Get(returned.ok, "status") = PyText("success")
        /\ Get(returned.ok, "response") = enhanced_response

\* The retrieval service is reachable: the probe query got HTTP 200 and the
\* client's own health_check calls it healthy
RagReachable ==
    /\ rag_in.http.kind = "response"
    /\ rag_in.http.status_code = 200
    /\ ~Raised(rag_call.result)
    /\ Get(rag_call.result.ok, "status") = PyText("healthy")

\* The retrieval service is unreachable: the probe query raised or got another status
RagUnreachable == HttpFailed(rag_in.http)

\* The completion service is reachable: both of its health calls report available
GroqReachable ==
    /\ groq_in.first.kind = "return"
    /\ groq_in.second.kind = "return"
    /\ DictGet(groq_in.first.value, Str("available"), PyBool(FALSE)) = PyBool(TRUE)
    /\ DictGet(groq_in.second.value, Str("available"), PyBool(FALSE)) = PyBool(TRUE)

\* The completion service is unreachable: its health call raises, or both calls
\* report it unavailable
GroqUnreachable ==
    \/ groq_in.first.kind = "raise"
    \/ /\ groq_in.first.kind = "return"
       /\ groq_in.second.kind = "return"
       /\ DictGet(groq_in.first.value, Str("available"), PyBool(FALSE)) = PyBool(FALSE)
       /\ DictGet(groq_in.second.value, Str("available"), PyBool(FALSE)) = PyBool(FALSE)

\* C5: health_check reports "healthy" when the retrieval service and the completion
\* service are both reachable, "partial" when exactly one is, "degraded" when
\* neither is; with the retrieval service reachable and the completion service
\* unreachable the status is "partial" and rag_api_available is true.
C5_HealthStatusFollowsUpstreams ==
    HealthCheckReturned =>
        /\ ~Raised(returned)
        /\ (RagReachable /\ GroqReachable) => Get(returned.ok, "status") = PyText("healthy")
        /\ (RagReachable /\ GroqUnreachable) =>
                /\ Get(returned.ok, "status") = PyText("partial")
                /\ Get(returned.ok, "rag_api_available") = PyBool(TRUE)
        /\ (RagUnreachable /\ GroqReachable) => Get(returned.ok, "status") = PyText("partial")
        /\ (RagUnreachable /\ GroqUnreachable) => Get(returned.ok, "status") = PyText("degraded")

\* The kinds of the calls made so far in this run, in order
EventKinds == [i \in 1..Len(events) |-> events[i].kind]

\* Retrieval call, completion call, action-log record
StepOrder == <<"rag_request", "groq_request", "log_action">>

LogRecords == {i \in 1..Len(events) : events[i].kind = "log_action"}

\* C17: in every run of process_query the steps occur in the fixed order retrieval
\* call, completion call, action-log record, return; an envelope with status
\* "success" is returned only after exactly one action-log record has been emitted
\* for the query; an error envelope may be returned from any step (after any prefix
\* of the steps).
C17_StepsInFixedOrder ==
    call.op = "process_query" =>
        /\ Len(events) <= Len(StepOrder)
        /\ EventKinds = SubSeq(StepOrder, 1, Len(events))
        /\ (returned # NoReturn) <=> (pc = "done")
        /\ pc = "done" =>
                /\ ~Raised(returned)
                /\ Get(returned.ok, "status") \in {PyText("success"), PyText("error")}
                /\ Get(returned.ok, "status") = PyText("success") =>
                        /\ EventKinds = StepOrder
                        /\ Cardinality(LogRecords) = 1
                        /\ Get(events[3].record.metadata, "query") = PyStr(call.query)

\* process_query has returned a success envelope after the retrieval call, the
\* completion call and one log record, in this order
C17_Witness ==
    /\ ProcessQueryReturned
    /\ ~Raised(returned)
    /\ Get(returned.ok, "status") = PyText("success")
    /\ EventKinds = StepOrder
    /\ log_in.kind = "return"

\* The requests of one kind made so far in this run
RequestsOf(kind) == {i \in 1..Len(events) : events[i].kind = kind}

\* C18: no retries.  Within one process_query call exactly one retrieval request and
\* at most one completion request are issued, whatever their outcomes; after a single
\* failed attempt the fallback is substituted at once (the fallback retrieval result
\* and an empty context; the fallback response text), and no second request goes to
\* the same upstream.
C18_NoRetries ==
    call.op = "process_query" =>
        /\ Cardinality(RequestsOf("rag_request")) <= 1
        /\ Cardinality(RequestsOf("groq_request")) <= 1
        /\ pc # "retrieve" => Cardinality(RequestsOf("rag_request")) = 1
        /\ (pc # "retrieve" /\ HttpFailed(rag_in.http)) =>
                /\ rag_call.result =
                       Ok(RAGClient_create_fallback_response(rag_client, rag_in.query, 5))
                /\ knowledge_context = <<>>
                /\ sources = <<>>
        /\ (pc \in {"log", "assemble", "done"} /\ CompletionFailed(groq_in)) =>
                /\ Cardinality(RequestsOf("groq_request")) = 1
                /\ enhanced_response =
                       PyStr(EduMentorAgent_fallback_response(EduMentorAgent_init, call.query,
                                                              knowledge_context))
                /\ ~groq_used

\* process_query has returned after a retrieval call that timed out and a completion
\* call that raised, each tried once
C18_Witness ==
    /\ ProcessQueryReturned
    /\ rag_in.http = [kind |-> "raise", exc |-> "Timeout"]
    /\ groq_in.kind = "raise"
    /\ Cardinality(RequestsOf("rag_request")) = 1
    /\ Cardinality(RequestsOf("groq_request")) = 1

\* The caller passed an id; None and the empty string are no id (line 121)
IdSupplied == Truthy(call.task_id)

\* C19: process_query uses one correlation id throughout a call.  If the caller
\* supplied an id, the envelope's query_id and the task_id of the action-log record
\* both equal it; if the caller supplied none, a fresh id is generated and that same
\* id is in both.  This holds for success envelopes and for error envelopes.
C19_OneCorrelationId ==
    ProcessQueryReturned =>
        /\ ~Raised(returned)
        /\ Get(returned.ok, "query_id") = task_id
        /\ \A i \in LogRecords : events[i].record.task_id = task_id
        /\ LogRecords # {}
        /\ IdSupplied => task_id = call.task_id
        /\ ~IdSupplied => task_id \in {PyStr(u) : u \in Uuids}

\* process_query, called without an id, has returned an error envelope that carries
\* the generated id
C19_Witness ==
    /\ ProcessQueryReturned
    /\ call.task_id = PyNone
    /\ ~Raised(returned)
    /\ Get(returned.ok, "status") = PyText("error")
    /\ Get(returned.ok, "query_id") = PyText("9b2e4c7a-uuid-b")
    /\ events[3].record.task_id = PyText("9b2e4c7a-uuid-b")


\* The retrieval client returned a result of status 200 to process_query
RetrievalSucceeded ==
    /\ call.op = "process_query"
    /\ pc # "retrieve"
    /\ ~Raised(rag_call.result)
    /\ Get(rag_call.result.ok, "status") = PyInt(200)

\* The fragments of the retrieval result, in the order the upstream gave them
Fragments == Get(rag_call.result.ok, "response").l

\* min(3, n)
FragmentsUsed == IF Len(Fragments) < 3 THEN Len(Fragments) ELSE 3

\* The context is the contents of the first min(3, n) fragments, in upstream order,
\* joined by single spaces, and the sources are those fragments in that order, each
\* with a preview that begins as the fragment's content does
ContextAndSourcesFollowFragments ==
    /\ knowledge_context =
            JoinSpace([i \in 1..FragmentsUsed |-> Get(Fragments[i], "content").s])
    /\ Len(sources) = FragmentsUsed
    /\ \A i \in 1..FragmentsUsed :
            /\ Get(sources[i], "source") = Get(Fragments[i], "source")
            /\ Get(sources[i], "score") = Get(Fragments[i], "score")
            /\ Get(sources[i], "document_id") = Get(Fragments[i], "document_id")
            /\ Get(sources[i], "folder") = Get(Fragments[i], "folder")
            /\ LET preview == Prefix(Get(Fragments[i], "content").s, 200)
               IN  Prefix(Get(sources[i], "content").s, Len(preview)) = preview

\* C20 as stated: on a successful retrieval with n fragments, the prompt context is
\* the contents of the first min(3, n) fragments in upstream order (not by score)
\* joined by single spaces, and sources is the list of those same fragments in the
\* same order, each carrying a content preview of at most 200 characters.
C20_PreviewAtMost200 ==
    RetrievalSucceeded =>
        /\ ContextAndSourcesFollowFragments
        /\ \A i \in 1..Len(sources) : Len(Get(sources[i], "content").s) <= 200

\* C20, amended: on a successful retrieval with n fragments, the prompt context is
\* the contents of the first min(3, n) fragments in upstream order (not by score)
\* joined by single spaces, and sources is the list of those same fragments in the
\* same order, each carrying a content preview that is the first 200 characters of
\* the fragment's content followed by "..." (at most 203 characters).
C20_PreviewIs200AndEllipsis ==
    RetrievalSucceeded =>
        /\ ContextAndSourcesFollowFragments
        /\ \A i \in 1..Len(sources) :
                /\ Get(sources[i], "content").s =
                        Prefix(Get(Fragments[i], "content").s, 200) \o Str("...")
                /\ Len(Get(sources[i], "content").s) <= 203

\* process_query has returned after a retrieval of four fragments, the first with a
\* content longer than 200 characters and a lower score than the third: three
\* sources, the first with a preview of 203 characters
C20_Witness ==
    /\ ProcessQueryReturned
    /\ RetrievalSucceeded
    /\ Len(Fragments) = 4
    /\ Get(Fragments[1], "content") = PyStr(LongContent)
    /\ Get(Fragments[3], "score") = PyFloat(9, 1)
    /\ Len(sources) = 3
    /\ Len(Get(sources[1], "content").s) = 203

\* process_query is past its completion step
CompletionStepDone == call.op = "process_query" /\ pc \in {"log", "assemble", "done"}

\* The completion service reported success and returned a non-empty text
CompletionGaveText ==
    /\ groq_in.kind = "return"
    /\ groq_in.success = PyBool(TRUE)
    /\ IsStr(groq_in.response)
    /\ groq_in.response.s # <<>>

\* A success envelope has been returned
SuccessReturned ==
    /\ ProcessQueryReturned
    /\ ~Raised(returned)
    /\ Get(returned.ok, "status") = PyText("success")

\* C21: the text returned by the completion step is always non-empty, and
\* groq_enhanced is true exactly when the completion service reported success and
\* returned non-empty text; a reported success with empty text is replaced by the
\* fallback text with groq_enhanced false.
C21_CompletionTextNeverEmpty ==
    /\ CompletionStepDone =>
            /\ IsStr(enhanced_response)
            /\ Len(enhanced_response.s) > 0
            /\ groq_used <=> CompletionGaveText
            /\ groq_used => enhanced_response = groq_in.response
            /\ (groq_in.kind = "return" /\ groq_in.success = PyBool(TRUE)
                    /\ groq_in.response = PyText("")) =>
                    /\ ~groq_used
                    /\ Prefix(enhanced_response.s, Len(FallbackOpening(call.query))) =
                            FallbackOpening(call.query)
    /\ SuccessReturned =>
            /\ Get(returned.ok, "response") = enhanced_response
            /\ Get(returned.ok, "groq_enhanced") = PyBool(CompletionGaveText)

\* A success envelope has been returned after the completion service reported
\* success with an empty text: the envelope carries the fallback text and
\* groq_enhanced false
C21_Witness ==
    /\ SuccessReturned
    /\ groq_in = GroqReturn(PyText(""), TRUE)
    /\ Get(returned.ok, "groq_enhanced") = PyBool(FALSE)
    /\ Get(returned.ok, "response").s # <<>>

\* C22: the action-log record and the returned success envelope describe the same
\* outcome: the record's backend (model) is "groq" exactly when the envelope's
\* groq_enhanced is true and "fallback" otherwise, its knowledge_retrieved equals the
\* envelope's knowledge_context_used, its sources_count equals the envelope's
\* total_sources and the length of sources, and the envelope's enhancement_method
\* equals the record's backend.
C22_RecordAgreesWithEnvelope ==
    SuccessReturned =>
        /\ Cardinality(LogRecords) = 1
        /\ \A i \in LogRecords :
            /\ events[i].record.model \in {Str("groq"), Str("fallback")}
            /\ (events[i].record.model = Str("groq")) <=>
                    (Get(returned.ok, "groq_enhanced") = PyBool(TRUE))
            /\ Get(returned.ok, "groq_enhanced") \in {PyBool(TRUE), PyBool(FALSE)}
            /\ Get(events[i].record.metadata, "groq_enhanced") = Get(returned.ok, "groq_enhanced")
            /\ Get(events[i].record.metadata, "knowledge_retrieved") =
                    Get(returned.ok, "knowledge_context_used")
            /\ Get(events[i].record.metadata, "sources_count") =
                    Get(Get(returned.ok, "rag_data"), "total_sources")
            /\ Get(events[i].record.metadata, "sources_count") =
                    PyInt(Len(Get(returned.ok, "sources").l))
            /\ Get(Get(returned.ok, "metadata"), "enhancement_method") =
                    PyStr(events[i].record.model)

\* A success envelope has been returned with three sources and the fallback text,
\* after a record with backend "fallback" and sources_count 3
C22_Witness ==
    /\ SuccessReturned
    /\ Len(events) = 3
    /\ events[3].record.model = Str("fallback")
    /\ Get(events[3].record.metadata, "sources_count") = PyInt(3)
    /\ Get(events[3].record.metadata, "knowledge_retrieved") = PyBool(TRUE)
    /\ Get(Get(returned.ok, "metadata"), "enhancement_method") = PyText("fallback")

\* A probe of health_check raised: session.post of the retrieval probe, or one of the
\* two calls of groq_client.health_check
RagProbeRaised == rag_in.http.kind = "raise"
GroqProbeRaised ==
    \/ groq_in.first.kind = "raise"
    \/ groq_in.second.kind = "raise"

\* C23: EduMentorAgent.health_check never raises: an exception thrown by either
\* upstream probe is caught and that upstream is reported unavailable; and the
\* returned status is consistent with the returned flags: "healthy" iff
\* rag_api_available and groq_api_available are both true, "partial" iff exactly one
\* is true, "degraded" iff both are false.
C23_HealthCheckNeverRaises ==
    HealthCheckReturned =>
        /\ ~Raised(returned)
        /\ Get(returned.ok, "rag_api_available") \in {PyBool(TRUE), PyBool(FALSE)}
        /\ Get(returned.ok, "groq_api_available") \in {PyBool(TRUE), PyBool(FALSE)}
        /\ RagProbeRaised => Get(returned.ok, "rag_api_available") = PyBool(FALSE)
        /\ GroqProbeRaised => Get(returned.ok, "groq_api_available") = PyBool(FALSE)
        /\ (Get(returned.ok, "status") = PyText("healthy")) <=>
                (/\ Get(returned.ok, "rag_api_available") = PyBool(TRUE)
                 /\ Get(returned.ok, "groq_api_available") = PyBool(TRUE))
        /\ (Get(returned.ok, "status") = PyText("partial")) <=>
                (Get(returned.ok, "rag_api_available") # Get(returned.ok, "groq_api_available"))
        /\ (Get(returned.ok, "status") = PyText("degraded")) <=>
                (/\ Get(returned.ok, "rag_api_available") = PyBool(FALSE)
                 /\ Get(returned.ok, "groq_api_available") = PyBool(FALSE))

\* health_check has returned "partial" with the completion service available, after
\* the retrieval probe's request raised
C23_Witness ==
    /\ HealthCheckReturned
    /\ RagProbeRaised
    /\ ~Raised(returned)
    /\ Get(returned.ok, "rag_api_available") = PyBool(FALSE)
    /\ Get(returned.ok, "groq_api_available") = PyBool(TRUE)
    /\ Get(returned.ok, "status") = PyText("partial")

\* The fallback text between its opening and its suffix
FallbackMiddle(text, query) ==
    SubSeq(text, Len(FallbackOpening(query)) + 2, Len(text) - Len(EncouragementSuffix))

\* The completion step substituted the fallback text
FallbackSubstituted == CompletionStepDone /\ ~groq_used

\* C24: the completion fallback text is a deterministic function of (query,
\* knowledge context): the fixed opening embedding the query, followed either by at
\* most the first 500 characters of the knowledge context (when it is non-empty) or
\* by a fixed generic sentence (when it is empty), followed by the fixed encouragement
\* suffix; equal inputs give equal text, whatever the ids, the clock and the
\* upstream outcomes of the call.
C24_FallbackTextIsTemplate ==
    FallbackSubstituted =>
        /\ IsStr(enhanced_response)
        /\ Prefix(enhanced_response.s, Len(FallbackOpening(call.query)) + 1) =
                FallbackOpening(call.query) \o Str(" ")
        /\ SubSeq(enhanced_response.s,
                  Len(enhanced_response.s) - Len(EncouragementSuffix) + 1,
                  Len(enhanced_response.s)) = EncouragementSuffix
        /\ knowledge_context = <<>> =>
                FallbackMiddle(enhanced_response.s, call.query) = GenericSentence
        /\ knowledge_context # <<>> =>
                /\ FallbackMiddle(enhanced_response.s, call.query) =
                        ContextLeadIn \o Prefix(knowledge_context, 500) \o Str("...")
                /\ Len(FallbackMiddle(enhanced_response.s, call.query)) <=
                        Len(ContextLeadIn) + 500 + 3

\* process_query has returned the fallback text built on a knowledge context of more
\* than 500 characters: the text quotes 500 of them
C24_Witness ==
    /\ ProcessQueryReturned
    /\ FallbackSubstituted
    /\ Len(knowledge_context) > 500
    /\ Len(FallbackMiddle(enhanced_response.s, call.query)) = Len(ContextLeadIn) + 500 + 3

\* C25: in every success envelope, knowledge_context_used is true exactly when
\* sources is non-empty: the envelope never carries source fragments while reporting
\* that no knowledge context was used (for example when the retrieved fragments all
\* have empty content), and never reports context used with no sources.
C25_ContextUsedIffSources ==
    SuccessReturned =>
        ((Get(returned.ok, "knowledge_context_used") = PyBool(TRUE))
            <=> (Get(returned.ok, "sources").l # <<>>))

---------------------------------------------------------------------------
(* Properties of VaaniClient *)

\* A public operation of the client has returned
VaaniReturned == vaani_pc = "done" /\ vaani_call.op # "__init__"

IsLoginRequest(r) == r.url = vaani.base_url \o LoginPath
IsCreateRequest(r) == r.url = vaani.base_url \o CreatePath

\* The positions of the login requests among the requests of the operation
LoginsSent == {i \in 1..Len(vaani_sent) : IsLoginRequest(vaani_sent[i])}

\* C11: in every public operation, when no token is held as the operation starts
\* exactly one login request is sent, before every other request of the operation,
\* and the operation goes on to its own call whether that login succeeded or not;
\* when a token is held no login request is sent.  (A token is held when self.token
\* is neither None nor empty, the test of _ensure_authenticated.)
C11_OneLoginWhenNoToken ==
    VaaniReturned =>
        /\ ~Truthy(vaani_before.token) =>
                /\ LoginsSent = {1}
                /\ Len(vaani_sent) >= 2
                /\ ~IsLoginRequest(vaani_sent[2])
        /\ Truthy(vaani_before.token) => LoginsSent = {}

\* generate_content has returned after starting without a token: its login timed
\* out, and content/create and generate-content were called all the same
C11_Witness ==
    /\ VaaniReturned
    /\ vaani_call.op = "generate_content"
    /\ vaani_before.token = PyNone
    /\ vaani_in.login.kind = "raise"
    /\ vaani.token = PyNone
    /\ Len(vaani_sent) = 3
    /\ IsLoginRequest(vaani_sent[1])
    /\ IsCreateRequest(vaani_sent[2])

\* The tokens the login call hands out
IssuedTokens ==
    {Get(l.json.ok, "access_token") : l \in
        {x \in VaaniLoginOutcomes :
            /\ x.kind = "response"
            /\ x.status_code = 200
            /\ ~Raised(x.json)
            /\ IsDict(x.json.ok)
            /\ HasKey(x.json.ok, Str("access_token"))
            /\ Truthy(Get(x.json.ok, "access_token"))}}

\* The request carries Authorization: Bearer <token>, for a token a login handed out
CarriesBearerToken(r) ==
    /\ "Authorization" \in DOMAIN r.headers
    /\ \E tok \in IssuedTokens : r.headers["Authorization"] = Str("Bearer ") \o tok.s

\* C12: every request a constructed client sends to a content-service endpoint
\* (every request but the login) carries the header Authorization: Bearer <token>,
\* with a token obtained from a login call.
C12_EveryRequestCarriesToken ==
    VaaniReturned =>
        \A i \in 1..Len(vaani_sent) :
            ~IsLoginRequest(vaani_sent[i]) => CarriesBearerToken(vaani_sent[i])

\* The outcome o, with 500 in the place of a status 401
As500(o) ==
    IF o.kind = "response" /\ o.status_code = 401 THEN [o EXCEPT !.status_code = 500] ELSE o

\* C13: once the client holds a token, no response of a content-service endpoint
\* (HTTP 401 included) and no exception makes it send a login request, change the
\* cached token or change the Authorization header: the token, once set, is never
\* cleared or replaced.  An operation whose create or endpoint call was answered 401
\* returns what it returns when that call is answered 500.
C13_TokenIsNeverRefreshed ==
    /\ [][Truthy(vaani.token) =>
            /\ vaani'.token = vaani.token
            /\ vaani'.headers = vaani.headers
            /\ \A i \in 1..Len(vaani_sent') : vaani_sent'[i].url # vaani.base_url \o LoginPath]_vars
    /\ [](VaaniReturned /\ Truthy(vaani_before.token) =>
            vaani_result = VaaniClient_call(vaani_before, vaani_call, vaani_in.login,
                                            As500(vaani_in.create),
                                            As500(vaani_in.endpoint),
                                            vaani_in.audio_id).result)

\* generate_content has returned {"error": ...} after its endpoint answered 401 to a
\* client that held a token, and the token and the header are the ones it held
C13_Witness ==
    /\ VaaniReturned
    /\ vaani_call.op = "generate_content"
    /\ vaani_before.token = PyText("tok-1")
    /\ vaani_in.endpoint.kind = "response"
    /\ vaani_in.endpoint.status_code = 401
    /\ vaani_result = Ok(PyDict(<<Entry("error", PyText("Content generation failed"))>>))
    /\ vaani.token = PyText("tok-1")
    /\ vaani.headers["Authorization"] = Str("Bearer tok-1")

\* The requests of the operation after its login, if it sent one
NotLoginRequest(r) == ~IsLoginRequest(r)
OwnRequests == SelectSeq(vaani_sent, NotLoginRequest)

\* The operations said to create content ahead of their own request
CreateFirstOperations == ContentOperations \cup {"detect_language"}

\* C14: each of generate_content, translate_content, generate_voice,
\* analyze_content_security and detect_language first sends content/create, and
\* sends the request to its own endpoint only after create returned a content_id,
\* with that content_id in the payload; when create fails or returns no content_id
\* the operation returns {"error": "Failed to create content"} and its own endpoint
\* is never called.
C14_CreateBeforeEndpoint ==
    (VaaniReturned /\ vaani_call.op \in CreateFirstOperations) =>
        /\ Len(OwnRequests) \in {1, 2}
        /\ IsCreateRequest(OwnRequests[1])
        /\ vaani_in.create # NoOutcome
        /\ Len(OwnRequests) = 2 =>
                /\ Truthy(CreatedContentId(vaani_in.create))
                /\ ~IsCreateRequest(OwnRequests[2])
                /\ DictGet(OwnRequests[2].json, Str("content_id"), PyNone) =
                        CreatedContentId(vaani_in.create)
        /\ ~Truthy(CreatedContentId(vaani_in.create)) =>
                /\ Len(OwnRequests) = 1
                /\ vaani_result = Ok(PyDict(<<Entry("error", PyText("Failed to create content"))>>))

\* The call failed: it raised (a timeout, a transport error), or was answered with a
\* status other than 200
UpstreamFailed(o) ==
    o.kind = "raise" \/ (o.kind = "response" /\ o.status_code # 200)

\* The call was answered 200 with a JSON body
Answered(o) == o.kind = "response" /\ o.status_code = 200 /\ ~Raised(o.json)

C26_HeaderMatchesToken ==
    "Authorization" \in DOMAIN vaani.headers =>
        /\ vaani.token # PyNone
        /\ IsStr(vaani.token)
        /\ vaani.headers["Authorization"] = Str("Bearer ") \o vaani.token.s

---------------------------------------------------------------------------
(* Properties of concurrent callers of VaaniClient *)

AllCallersFinished == \A t \in Callers : callers[t].pc = "finished"

\* A caller's login obtained a token
SomeLoginSucceeded ==
    \E t \in Callers : LoginAccepted(callers[t].login) /\ Truthy(callers[t].data)

\* C16: when several callers concurrently call operations on one client whose token
\* is absent, each caller sends at most one login request, and in every interleaving,
\* once all callers have finished and at least one login succeeded, the cached token
\* is not None and is the token carried in the session's Authorization header.
C16_RaceOnlyRepeatsLogin ==
    /\ \A t \in DOMAIN callers : callers[t].logins <= 1
    /\ (vaani_pc = "shared" /\ AllCallersFinished /\ SomeLoginSucceeded) =>
            /\ vaani.token # PyNone
            /\ "Authorization" \in DOMAIN vaani.headers
            /\ vaani.headers["Authorization"] = Str("Bearer ") \o Format(vaani.token)

===========================================================================
